---------------------------- MODULE Spec2Model ----------------------------
(***************************************************************************)
(* Conversation orchestration engine of the Heidi call simulator           *)
(* (server/src/services/callSimulator.js): the inbound-call state machine, *)
(* the outbound follow-up state machine, the keyword scanners they use and *)
(* the way they consume the text-generation / classification collaborator. *)
(*                                                                         *)
(* Strings are real strings: String.prototype.includes is a character      *)
(* level substring test and toLowerCase maps characters, so "human" is     *)
(* found inside "HUMANE" exactly as in the JavaScript.                     *)
(***************************************************************************)
EXTENDS Integers, Sequences, FiniteSets, TLC

(***************************************************************************)
(* JavaScript values                                                       *)
(***************************************************************************)
\* JavaScript null / undefined (a value that is neither a text nor a record)
null == "<null>"

\* a rejected promise / thrown exception of a collaborator call
REJECT == "<reject>"

\* JavaScript truthiness of a string-or-null value
Truthy(v) == v # null /\ v # ""

(***************************************************************************)
(* String primitives                                                       *)
(***************************************************************************)
UpperChars == "ABCDEFGHIJKLMNOPQRSTUVWXYZ"
LowerChars == "abcdefghijklmnopqrstuvwxyz"

CharAt(s, i) == SubSeq(s, i, i)

UpperSet == {CharAt(UpperChars, i) : i \in 1..26}
LowerSet == {CharAt(LowerChars, i) : i \in 1..26}

IsUpper(c) == c \in UpperSet
IsLower(c) == c \in LowerSet

LowerMap ==
  [c \in UpperSet |-> CharAt(LowerChars, CHOOSE i \in 1..26 : CharAt(UpperChars, i) = c)]

LowerChar(c) == IF IsUpper(c) THEN LowerMap[c] ELSE c

\* String.prototype.toLowerCase, character by character (the string is
\* halved at each step to keep the evaluation shallow)
RECURSIVE toLowerCase(_)
toLowerCase(s) ==
  IF Len(s) = 0 THEN ""
  ELSE IF Len(s) = 1 THEN LowerChar(s)
  ELSE toLowerCase(SubSeq(s, 1, Len(s) \div 2))
         \o toLowerCase(SubSeq(s, Len(s) \div 2 + 1, Len(s)))

\* String.prototype.includes
includes(s, k) ==
  \E i \in 1..(Len(s) - Len(k) + 1) : SubSeq(s, i, i + Len(k) - 1) = k

\* String.prototype.startsWith
startsWith(s, k) == Len(k) <= Len(s) /\ SubSeq(s, 1, Len(k)) = k

\* String.prototype.indexOf / lastIndexOf, 0-based, -1 when absent
Occurrences(s, k) ==
  {i \in 1..(Len(s) - Len(k) + 1) : SubSeq(s, i, i + Len(k) - 1) = k}

SetMax(S) == CHOOSE x \in S : \A y \in S : y <= x
SetMin(S) == CHOOSE x \in S : \A y \in S : x <= y

indexOf(s, k) ==
  LET first(found) == IF found = {} THEN -1 ELSE SetMin(found) - 1
  IN first(Occurrences(s, k))
lastIndexOf(s, k) ==
  LET last(found) == IF found = {} THEN -1 ELSE SetMax(found) - 1
  IN last(Occurrences(s, k))

IsSpace(c) == c = " " \/ c = "\n" \/ c = "\t"

\* String.prototype.trim
RECURSIVE trimStart(_)
trimStart(s) ==
  IF Len(s) > 0 /\ IsSpace(CharAt(s, 1)) THEN trimStart(SubSeq(s, 2, Len(s))) ELSE s

RECURSIVE trimEnd(_)
trimEnd(s) ==
  IF Len(s) > 0 /\ IsSpace(CharAt(s, Len(s))) THEN trimEnd(SubSeq(s, 1, Len(s) - 1)) ELSE s

trim(s) == trimEnd(trimStart(s))

\* s.split(" "): the maximal pieces between single spaces
RECURSIVE splitSpace(_)
splitSpace(s) ==
  LET p == indexOf(s, " ")
  IN IF p = -1 THEN <<s>>
     ELSE <<SubSeq(s, 1, p)>> \o splitSpace(SubSeq(s, p + 2, Len(s)))

\* Array.prototype.some over a sequence
some(seq, P(_)) == \E i \in 1..Len(seq) : P(seq[i])

\* Array.prototype.includes over a sequence
Contains(seq, x) == \E i \in 1..Len(seq) : seq[i] = x


(***************************************************************************)
(* Keyword tables of callSimulator.js                                      *)
(***************************************************************************)
INBOUND_STATES ==
  [GREETING |-> "greeting", SAFETY_SCAN |-> "safety_scan",
   IDENTIFY |-> "identify", TRIAGE |-> "triage",
   APPOINTMENT_FLOW |-> "appointment_flow", CLINICAL_FLOW |-> "clinical_flow",
   MESSAGE_FLOW |-> "message_flow", TRANSFER_FLOW |-> "transfer_flow",
   EMERGENCY_EXIT |-> "emergency_exit", SUCCESS_EXIT |-> "success_exit",
   CONFUSION_EXIT |-> "confusion_exit",
   APPOINTMENT_CHECK_ELIGIBILITY |-> "appointment_check_eligibility",
   APPOINTMENT_OFFER_SLOTS |-> "appointment_offer_slots",
   APPOINTMENT_CONFIRM |-> "appointment_confirm",
   CLINICAL_GATHER_SYMPTOMS |-> "clinical_gather_symptoms",
   CLINICAL_ASSESS_URGENCY |-> "clinical_assess_urgency",
   MESSAGE_TAKE_DETAILS |-> "message_take_details",
   MESSAGE_CONFIRM |-> "message_confirm"]

\* STATE_TRANSITIONS: for each state the states its declared rules lead to
\* (the table is declared at lines 153-192 and read by no code)
STATE_TRANSITIONS ==
  [s \in {INBOUND_STATES.GREETING, INBOUND_STATES.SAFETY_SCAN, INBOUND_STATES.IDENTIFY,
          INBOUND_STATES.TRIAGE, INBOUND_STATES.APPOINTMENT_FLOW,
          INBOUND_STATES.CLINICAL_FLOW, INBOUND_STATES.MESSAGE_FLOW,
          INBOUND_STATES.TRANSFER_FLOW} |->
     CASE s = INBOUND_STATES.GREETING -> {INBOUND_STATES.SAFETY_SCAN}
       [] s = INBOUND_STATES.SAFETY_SCAN ->
            {INBOUND_STATES.EMERGENCY_EXIT, INBOUND_STATES.IDENTIFY}
       [] s = INBOUND_STATES.IDENTIFY ->
            {INBOUND_STATES.TRIAGE, INBOUND_STATES.MESSAGE_FLOW,
             INBOUND_STATES.CONFUSION_EXIT}
       [] s = INBOUND_STATES.TRIAGE ->
            {INBOUND_STATES.APPOINTMENT_FLOW, INBOUND_STATES.CLINICAL_FLOW,
             INBOUND_STATES.MESSAGE_FLOW, INBOUND_STATES.TRANSFER_FLOW,
             INBOUND_STATES.TRIAGE, INBOUND_STATES.CONFUSION_EXIT}
       [] s = INBOUND_STATES.APPOINTMENT_FLOW ->
            {INBOUND_STATES.APPOINTMENT_OFFER_SLOTS,
             INBOUND_STATES.APPOINTMENT_CHECK_ELIGIBILITY,
             INBOUND_STATES.SUCCESS_EXIT, INBOUND_STATES.TRANSFER_FLOW}
       [] s = INBOUND_STATES.CLINICAL_FLOW ->
            {INBOUND_STATES.EMERGENCY_EXIT, INBOUND_STATES.TRANSFER_FLOW,
             INBOUND_STATES.MESSAGE_FLOW}
       [] s = INBOUND_STATES.MESSAGE_FLOW -> {INBOUND_STATES.SUCCESS_EXIT}
       [] s = INBOUND_STATES.TRANSFER_FLOW ->
            {INBOUND_STATES.SUCCESS_EXIT, INBOUND_STATES.MESSAGE_FLOW}]

OUTBOUND_STATES ==
  [OPENING |-> "opening", VERIFY_IDENTITY |-> "verify_identity",
   CHECK_SIDE_EFFECTS |-> "check_side_effects",
   CHECK_ADHERENCE |-> "check_adherence", PROBE_REASON |-> "probe_reason",
   CLOSING |-> "closing", ESCALATED |-> "escalated", COMPLETE |-> "complete"]

INTENT_APPOINTMENT ==
  <<"book", "appointment", "schedule", "see doctor", "available", "slot",
    "opening">>

INTENT_CLINICAL ==
  <<"symptom", "pain", "sick", "rash", "headache", "fever", "cough", "hurt",
    "bleeding", "dizzy", "nausea", "vomit">>

INTENT_ADMIN ==
  <<"form", "results", "prescription", "referral", "letter", "document",
    "paperwork", "records", "test results">>

INTENT_TRANSFER ==
  <<"speak to someone", "talk to a person", "real person", "human",
    "receptionist", "staff", "manager">>

INTENT_EMERGENCY ==
  <<"chest pain", "chest ache", "ache in my chest", "pain in my chest",
    "pain in chest", "hurts in my chest", "can't breathe", "cannot breathe",
    "struggling to breathe", "hard to breathe", "difficulty breathing",
    "trouble breathing", "heart attack", "having a heart", "stroke",
    "having a stroke", "unconscious", "passed out", "severe bleeding",
    "bleeding heavily", "won't stop bleeding", "overdose", "took too many",
    "suicide", "kill myself", "want to die", "end my life", "emergency",
    "dying", "think i'm dying", "call ambulance", "call 000",
    "need ambulance">>

\* Object.entries(INTENT_CATEGORIES) without EMERGENCY, in declaration order
INTENT_CATEGORIES ==
  << [category |-> "appointment", keywords |-> INTENT_APPOINTMENT],
     [category |-> "clinical", keywords |-> INTENT_CLINICAL],
     [category |-> "admin", keywords |-> INTENT_ADMIN],
     [category |-> "transfer", keywords |-> INTENT_TRANSFER] >>

doctorPatterns ==
  <<"talk to a doctor", "talk to doctor", "speak to a doctor",
    "speak to doctor", "want to talk to a doctor",
    "want to speak to a doctor", "see a doctor", "speak with a doctor",
    "talk with a doctor">>

refusalPhrases ==
  <<"don't want to", "won't give", "prefer not", "rather not", "skip that",
    "not comfortable", "just want to", "can we skip">>

donePhrases ==
  <<"no", "that's all", "that's it", "nothing else", "i'm good", "all good",
    "nope", "no thanks", "that will be all", "goodbye", "bye", "thank you",
    "thanks">>

anyDoctorPhrases ==
  <<"any doctor", "anyone", "any gp", "whoever", "don't mind",
    "no preference", "any available", "doesn't matter">>

urgentKeywords ==
  <<"severe", "very bad", "worst", "unbearable", "getting worse",
    "spreading", "high fever", "can't sleep", "worried">>

(***************************************************************************)
(* Clinic configurations handed to the engine (read-only input)            *)
(***************************************************************************)
\* booking_rules: `present' lists the keys the entry really carries; a key
\* that is not present reads as undefined in the JavaScript
StaffLee ==
  [name |-> "Sarah Lee",
   booking_rules |-> [accepts_new_patients |-> TRUE,
                      requires_manual_approval |-> FALSE,
                      present |-> {"accepts_new_patients", "requires_manual_approval"}]]

StaffPatel ==
  [name |-> "Raj Patel",
   booking_rules |-> [accepts_new_patients |-> TRUE,
                      requires_manual_approval |-> TRUE,
                      present |-> {"accepts_new_patients", "requires_manual_approval"}]]

StaffWong ==
  [name |-> "Amy Wong",
   booking_rules |-> [accepts_new_patients |-> FALSE,
                      requires_manual_approval |-> FALSE,
                      present |-> {"accepts_new_patients", "requires_manual_approval"}]]

\* an entry whose booking_rules carry no accepts_new_patients key
StaffNovak ==
  [name |-> "Kim Novak",
   booking_rules |-> [accepts_new_patients |-> FALSE,
                      requires_manual_approval |-> FALSE,
                      present |-> {}]]

WeekSchedule ==
  [d \in {"monday", "saturday"} |->
     IF d = "monday" THEN [start |-> "08:00", end |-> "18:00", is_open |-> TRUE]
     ELSE [start |-> "09:00", end |-> "12:00", is_open |-> FALSE]]

\* a clinic with the escalation keywords of the default configuration and
\* an emergency keyword of its own, written with capitals
ConfigDefault ==
  [clinic_name |-> "Northside",
   schedule |-> WeekSchedule,
   staff_directory |-> <<StaffLee, StaffPatel, StaffWong>>,
   emergency_keywords |-> <<"chest pain", "Snake Bite">>,
   escalation_keywords |-> <<"urgent", "emergency", "speak to doctor",
                             "complaint", "not happy">>]

\* a clinic that configured no escalation keywords and no extra emergency
\* keywords
ConfigPlain ==
  [clinic_name |-> "Northside",
   schedule |-> WeekSchedule,
   staff_directory |-> <<StaffLee, StaffPatel, StaffWong>>,
   emergency_keywords |-> <<>>,
   escalation_keywords |-> <<>>]

\* a clinic whose directory has an entry with empty booking rules
ConfigSparse ==
  [clinic_name |-> "Northside",
   schedule |-> WeekSchedule,
   staff_directory |-> <<StaffWong, StaffNovak, StaffLee>>,
   emergency_keywords |-> <<>>,
   escalation_keywords |-> <<>>]

ClinicConfigs == {ConfigDefault, ConfigPlain, ConfigSparse}

\* the default clinic after its schedule was edited: closed all week
ClosedSchedule ==
  [d \in {"monday", "saturday"} |-> [start |-> "08:00", end |-> "18:00", is_open |-> FALSE]]

ConfigMondayOff == [ConfigDefault EXCEPT !.schedule = ClosedSchedule]

\* every configuration a request can carry
KnownConfigs == ClinicConfigs \cup {ConfigMondayOff}

(***************************************************************************)
(* Keyword scanners (pure functions of message and configuration)          *)
(***************************************************************************)
\* _detectEmergency: built-in lexicon followed by the configured keywords
detectEmergency(message, clinicConfig) ==
  LET lowerMessage == toLowerCase(message)
      emergencyKeywords == INTENT_EMERGENCY \o clinicConfig.emergency_keywords
  IN some(emergencyKeywords, LAMBDA keyword : includes(lowerMessage, toLowerCase(keyword)))

\* _detectTransferRequest
detectTransferRequest(message, clinicConfig) ==
  LET lowerMessage == toLowerCase(message)
      configuredTriggers == clinicConfig.escalation_keywords
      allTriggers == IF Len(configuredTriggers) > 0 THEN configuredTriggers
                     ELSE INTENT_TRANSFER
      doctorMatch == some(doctorPatterns, LAMBDA pattern : includes(lowerMessage, pattern))
  IN IF doctorMatch THEN TRUE
     ELSE some(allTriggers, LAMBDA keyword : includes(lowerMessage, toLowerCase(keyword)))

\* _classifyIntent: first category, in declaration order, with a keyword hit
classifyIntent(message) ==
  LET lowerMessage == toLowerCase(message)
      hit(c) == some(c.keywords, LAMBDA keyword : includes(lowerMessage, toLowerCase(keyword)))
      hits == {i \in 1..Len(INTENT_CATEGORIES) : hit(INTENT_CATEGORIES[i])}
  IN IF hits = {} THEN "unclear" ELSE INTENT_CATEGORIES[SetMin(hits)].category

\* _isRefusal
isRefusal(message) ==
  LET lowerMessage == toLowerCase(message)
  IN some(refusalPhrases, LAMBDA phrase : includes(lowerMessage, phrase))

\* _isDone: exact or prefix match on the trimmed lower-cased message
isDone(message) ==
  LET lowerMessage == trim(toLowerCase(message))
  IN some(donePhrases, LAMBDA phrase : lowerMessage = phrase \/ startsWith(lowerMessage, phrase))

\* Number() of a string of decimal digits
Digits == "0123456789"

DigitValue(c) == (CHOOSE i \in 1..10 : CharAt(Digits, i) = c) - 1

RECURSIVE Number(_)
Number(s) ==
  IF Len(s) = 0 THEN 0
  ELSE 10 * Number(SubSeq(s, 1, Len(s) - 1)) + DigitValue(CharAt(s, Len(s)))

\* "HH:MM" -> minutes since midnight (split(":").map(Number), hour*60+min)
Minutes(hhmm) ==
  LET p == indexOf(hhmm, ":")
  IN Number(SubSeq(hhmm, 1, p)) * 60 + Number(SubSeq(hhmm, p + 2, Len(hhmm)))

\* _isBusinessHours with the end of the window included
isBusinessHoursAt_EndInclusive(config, day, time) ==
  LET d == toLowerCase(day)
  IN IF d \notin DOMAIN config.schedule THEN FALSE
     ELSE LET schedule == config.schedule[d]
          IN IF ~schedule.is_open THEN FALSE
             ELSE Minutes(time) >= Minutes(schedule.start)
                  /\ Minutes(time) <= Minutes(schedule.end)

\* _isBusinessHours
isBusinessHoursAt(config, day, time) ==
  LET d == toLowerCase(day)
  IN IF d \notin DOMAIN config.schedule THEN FALSE
     ELSE LET schedule == config.schedule[d]
          IN IF ~schedule.is_open THEN FALSE
             ELSE Minutes(time) >= Minutes(schedule.start)
                  /\ Minutes(time) < Minutes(schedule.end)

(***************************************************************************)
(* Doctor lookup                                                           *)
(***************************************************************************)
IsLetter(c) == IsUpper(c) \/ IsLower(c)

\* end (inclusive) of the maximal run of characters of class cls that starts
\* at position j; j - 1 when the character at j is not of that class
\* cls is one of "space", "letter", "lower"
InClass(c, cls) ==
  CASE cls = "space" -> IsSpace(c)
    [] cls = "letter" -> IsLetter(c)
    [] cls = "lower" -> IsLower(c)

RECURSIVE RunEnd(_, _, _)
RunEnd(s, j, cls) ==
  IF j <= Len(s) /\ InClass(CharAt(s, j), cls) THEN RunEnd(s, j + 1, cls) ELSE j - 1

\* booking_rules reads: a key that is absent is undefined
AcceptsTruthy(rules) ==
  "accepts_new_patients" \in rules.present /\ rules.accepts_new_patients

AcceptsNotFalse(rules) ==
  "accepts_new_patients" \notin rules.present \/ rules.accepts_new_patients

RequiresApproval(rules) ==
  "requires_manual_approval" \in rules.present /\ rules.requires_manual_approval

\* bookingRules of `doctor?.booking_rules || {}'
NoRules ==
  [accepts_new_patients |-> FALSE, requires_manual_approval |-> FALSE,
   present |-> {}]

\* name parts longer than two characters
LongParts(name) ==
  LET parts == splitSpace(toLowerCase(name))
  IN {i \in 1..Len(parts) : Len(parts[i]) > 2}

\* /(?:dr\.?|doctor)\s+([a-z]+)/i at 1-based position i of the message.
\* DrGroupStart: where the captured group starts when the alternative p of
\* the prefix matches at i of the lower-cased message, 0 when it does not
DrGroupStart(lower, i, p) ==
  IF /\ i + Len(p) - 1 <= Len(lower)
     /\ SubSeq(lower, i, i + Len(p) - 1) = p
     /\ RunEnd(lower, i + Len(p), "space") >= i + Len(p)
     /\ RunEnd(lower, i + Len(p), "space") + 1 <= Len(lower)
     /\ IsLetter(CharAt(lower, RunEnd(lower, i + Len(p), "space") + 1))
    THEN RunEnd(lower, i + Len(p), "space") + 1
    ELSE 0

\* the captured group, or null when the pattern does not match at i
DrRegexAt(message, i) ==
  LET group(start) ==
        IF start = 0 THEN null
        ELSE SubSeq(message, start, RunEnd(message, start, "letter"))
      first(dotted, plain, word) ==
        IF dotted # 0 THEN dotted ELSE IF plain # 0 THEN plain ELSE word
      at(lower) == group(first(DrGroupStart(lower, i, "dr."),
                               DrGroupStart(lower, i, "dr"),
                               DrGroupStart(lower, i, "doctor")))
  IN at(toLowerCase(message))

\* _extractDoctorName: the name of the first clinician one of whose name
\* parts occurs in the message, else the word after "dr"/"doctor", else null
extractDoctorName(message, clinicConfig) ==
  LET named(lowerMessage, name) ==
        \E i \in LongParts(name) :
           includes(lowerMessage, splitSpace(toLowerCase(name))[i])
      pick(clinicians, hits, drAt) ==
        IF hits # {} THEN clinicians[SetMin(hits)].name
        ELSE IF drAt # {} THEN DrRegexAt(message, SetMin(drAt))
        ELSE null
      scan(clinicians, lowerMessage) ==
        pick(clinicians,
             {k \in 1..Len(clinicians) : named(lowerMessage, clinicians[k].name)},
             {i \in 1..Len(message) : DrRegexAt(message, i) # null})
  IN scan(clinicConfig.staff_directory, toLowerCase(message))

\* staffDirectory.find(c => c.name.toLowerCase().includes(x.toLowerCase())):
\* index of the entry, 0 when there is none
FindStaff(staffDirectory, x) ==
  LET hits == {k \in 1..Len(staffDirectory) :
                 includes(toLowerCase(staffDirectory[k].name), toLowerCase(x))}
  IN IF hits = {} THEN 0 ELSE SetMin(hits)

\* /Dr\.?\s+([A-Z][a-z]+)/ (case-sensitive) at position i: end of the match,
\* 0 when it does not match there.  DrCapEnd: the same for one spelling p
\* of the prefix, w being the end of the white space that follows it
DrCapEnd(h, i, p) ==
  LET after(w) ==
        IF /\ w >= i + Len(p)
           /\ w + 2 <= Len(h)
           /\ IsUpper(CharAt(h, w + 1))
           /\ IsLower(CharAt(h, w + 2))
          THEN RunEnd(h, w + 2, "lower")
          ELSE 0
  IN IF i + Len(p) - 1 <= Len(h) /\ SubSeq(h, i, i + Len(p) - 1) = p
       THEN after(RunEnd(h, i + Len(p), "space"))
       ELSE 0

DrCapAt(h, i) ==
  LET first(dotted, plain) == IF dotted # 0 THEN dotted ELSE plain
  IN first(DrCapEnd(h, i, "Dr."), DrCapEnd(h, i, "Dr"))

\* the captured name of the match that starts at i and ends at e
DrCapName(h, i, e) ==
  SubSeq(h, SetMax({k \in i..e : IsUpper(CharAt(h, k))}), e)

\* matchAll with the g flag: successive non-overlapping matches from i on,
\* taken among the positions `starts' where the pattern matches
RECURSIVE DrMatchesFrom(_, _, _)
DrMatchesFrom(h, starts, i) ==
  LET from(j, e) ==
        {[index |-> j - 1, name |-> DrCapName(h, j, e)]}
          \cup DrMatchesFrom(h, starts, e + 1)
      next(rest) ==
        IF rest = {} THEN {} ELSE from(SetMin(rest), DrCapAt(h, SetMin(rest)))
  IN next({j \in starts : j >= i})

DrMatches(h, i) == DrMatchesFrom(h, {j \in 1..Len(h) : DrCapAt(h, j) # 0}, i)

\* _extractDoctorFromHistory: index in the directory of the most recently
\* mentioned doctor, 0 when none is mentioned.  `ord' is the position of
\* the mention in the mentions array (the sort is stable).
extractDoctorFromHistory(conversationHistory, staffDirectory) ==
  LET pats(part) == <<"dr. " \o part, "dr " \o part, "doctor " \o part>>
      byName(lowerHistory) ==
        {[staff |-> t[1],
          position |-> lastIndexOf(lowerHistory,
                         pats(splitSpace(toLowerCase(staffDirectory[t[1]].name))[t[2]])[t[3]]),
          ord |-> t[1] * 100 + t[2] * 10 + t[3]] :
            t \in {u \in (1..Len(staffDirectory)) \X (1..4) \X (1..3) :
                     u[2] \in LongParts(staffDirectory[u[1]].name)}}
      byRegex ==
        {[staff |-> FindStaff(staffDirectory, m.name), position |-> m.index,
          ord |-> 100000 + m.index] : m \in DrMatches(conversationHistory, 1)}
      latest(found, top) ==
        (CHOOSE m \in found :
           /\ m.position = top
           /\ \A n \in found : n.position = top => m.ord <= n.ord).staff
      among(mentions) ==
        IF mentions = {} THEN 0
        ELSE latest(mentions, SetMax({m.position : m \in mentions}))
  IN among({m \in byName(toLowerCase(conversationHistory)) \cup byRegex :
              m.position # -1 /\ m.staff # 0})

(***************************************************************************)
(* Inputs: patient messages and collaborator replies                       *)
(***************************************************************************)
MsgHello == "Hello there"
MsgBook == "I'd like to book an appointment"
MsgChestPain == "I have CHEST PAIN"
MsgSnakeBite == "It was a snake bite"
MsgRealPerson == "Can I get a real person"
MsgSpeakDoctor == "I want to speak to a doctor"
MsgEmergencyDoctor == "It's an emergency, let me speak to a doctor"
MsgIdentity == "Jane Doe, 1 Feb 1980"
MsgRatherNot == "I'd rather not say"
MsgNoThanks == "No thanks"
MsgDrPatel == "Dr Patel please"
MsgPatel == "Patel would be great"
MsgSlot == "The 10am one works"
MsgRash == "My rash is getting worse"
MsgResults == "I need my test results"
MsgAnyDoctor == "Any doctor is fine"
MsgDrWong == "Dr Wong please"

InboundMessages ==
  {MsgHello, MsgBook, MsgChestPain, MsgSnakeBite, MsgRealPerson,
   MsgSpeakDoctor, MsgEmergencyDoctor, MsgIdentity, MsgRatherNot,
   MsgNoThanks, MsgDrPatel, MsgPatel, MsgSlot, MsgRash, MsgResults,
   MsgAnyDoctor, MsgDrWong}

MsgYes == "Yes, now is fine"
MsgDizzy == "I've been very dizzy and almost fainted"
MsgNoSideEffects == "None at all"
MsgMissed == "I missed a couple of days"
MsgEveryDay == "Yes, every day"
MsgForgot == "I keep forgetting it"
MsgNothingElse == "Nothing else, thank you"
MsgPharmacy == "Please tell the pharmacy"
MsgThatsIt == "That's it"

OutboundMessages ==
  {MsgYes, MsgDizzy, MsgNoSideEffects, MsgMissed, MsgEveryDay, MsgForgot,
   MsgNothingElse, MsgPharmacy, MsgIdentity, MsgThatsIt}

Messages == InboundMessages \cup OutboundMessages

\* the two literals the IDENTIFY case passes on in place of a message
ScannedTexts == Messages \cup {"I want to book an appointment", "health concern"}

\* generated utterances: an acceptable identity request, one that breaks
\* the open-hours rule and names a doctor, one that speaks of after hours,
\* one that offers slots with a doctor, and none at all
GenAsk == "May I have your full name and date of birth?"
GenClosed == "Sorry, we are closed. Dr. Lee has a slot tomorrow."
GenAfterHours == "We also take calls after hours. How can I help?"
GenPatelSlots == "Dr. Patel has 10am or 2pm free. Which one works?"
GenNone == ""

GenTexts == {GenAsk, GenClosed, GenAfterHours, GenPatelSlots, GenNone}

\* every text a validation can be applied to
Utterances == GenTexts \cup {"How can I help you further?"}

NoReply == [ok |-> FALSE]

IdentityFull == [ok |-> TRUE, name |-> "Jane Doe", dob |-> "01/02/1980"]
IdentityNameOnly == [ok |-> TRUE, name |-> "Jane Doe", dob |-> null]

IntentConfirming == [ok |-> TRUE, intent |-> "confirming_time", doctorName |-> null]
IntentAccepting == [ok |-> TRUE, intent |-> "accepting_doctor", doctorName |-> "Lee"]
IntentOther == [ok |-> TRUE, intent |-> "other", doctorName |-> null]

CallMondayMorning == [day |-> "monday", time |-> "10:00"]
CallMondayNight == [day |-> "monday", time |-> "20:00"]

\* calls at the edges of the Monday window, on a closed day, on a day the
\* schedule does not list, and with a capitalised day name
HoursContexts ==
  {[day |-> "monday", time |-> "07:59"], [day |-> "monday", time |-> "08:00"],
   [day |-> "monday", time |-> "10:00"], [day |-> "monday", time |-> "17:59"],
   [day |-> "monday", time |-> "18:00"], [day |-> "monday", time |-> "20:00"],
   [day |-> "Monday", time |-> "09:05"], [day |-> "saturday", time |-> "10:00"],
   [day |-> "sunday", time |-> "10:00"]}

(***************************************************************************)
(* The scanners evaluated once over the finite input sets: Memo_f[x] is    *)
(* f(x), Memo_f[c][x] is f(x, c).  The engines below read these tables.    *)
(***************************************************************************)
\* anyDoctorPhrases.some(...) of _continueAppointmentFlow (lines 1547-1559)
wantsAnyDoctor(message) ==
  LET lowerMessage == toLowerCase(message)
  IN some(anyDoctorPhrases, LAMBDA phrase : includes(lowerMessage, phrase))

\* the transfer test of _continueAppointmentFlow (lines 1664-1667)
wantsPerson(message) ==
  LET lowerMessage == toLowerCase(message)
  IN includes(lowerMessage, "speak to someone") \/ includes(lowerMessage, "talk to")

\* urgentKeywords.some(...) of _handleClinicalFlow (lines 1699-1713)
isUrgent(message) ==
  LET lowerMessage == toLowerCase(message)
  IN some(urgentKeywords, LAMBDA keyword : includes(lowerMessage, keyword))

\* isDone of the outbound CLOSING case (lines 555-561)
isDoneClosing(message) ==
  LET lowerMessage == toLowerCase(message)
  IN \/ includes(lowerMessage, "no")
     \/ includes(lowerMessage, "that's all")
     \/ includes(lowerMessage, "nothing")
     \/ includes(lowerMessage, "thank")
     \/ includes(lowerMessage, "bye")
     \/ includes(lowerMessage, "good")

Memo_detectEmergency ==
  [c \in KnownConfigs |-> [m \in Messages |-> detectEmergency(m, c)]]

Memo_detectTransferRequest ==
  [c \in KnownConfigs |-> [m \in Messages |-> detectTransferRequest(m, c)]]

Memo_classifyIntent == [m \in Messages |-> classifyIntent(m)]

Memo_isRefusal == [m \in Messages |-> isRefusal(m)]

Memo_isDone == [m \in Messages |-> isDone(m)]

Memo_extractDoctorName ==
  [c \in KnownConfigs |-> [m \in ScannedTexts |-> extractDoctorName(m, c)]]

Memo_wantsAnyDoctor == [m \in Messages |-> wantsAnyDoctor(m)]

Memo_wantsPerson == [m \in Messages |-> wantsPerson(m)]

Memo_isUrgent == [m \in ScannedTexts |-> isUrgent(m)]

Memo_isDoneClosing == [m \in Messages |-> isDoneClosing(m)]

(***************************************************************************)
(* Utterance generation: the collaborator's reply `gen' is a text, the     *)
(* empty text, or REJECT (the call failed); each helper substitutes its    *)
(* own script for an empty reply and lets a failure propagate.             *)
(***************************************************************************)
OrElse(gen, script) ==
  IF gen = REJECT THEN REJECT ELSE IF Truthy(gen) THEN gen ELSE script

EmergencyScript ==
  "This sounds like an emergency. Please hang up and call 000 immediately, or go to your nearest emergency department. Your safety is the priority right now."

TransferOpenScript ==
  "Absolutely, I'll transfer you to one of our staff members right now. Please hold for just a moment."

TransferClosedScript ==
  "I understand you'd like to speak with someone directly. Unfortunately, our clinic is currently closed for the day. I'll leave an urgent message for our team to call you back first thing when we reopen. Is there anything urgent I can help you with in the meantime?"

ConfusionScript ==
  "I'm so sorry, I'm having trouble understanding. I'll have one of our receptionists call you back at this number shortly. Thank you for your patience. Goodbye."

SuccessScript ==
  "I've got all of that noted down. Is there anything else I can help you with? ... Take care, goodbye!"

IdentifyScript ==
  "To get started, could I please have your full name and date of birth?"

SystemErrorScript ==
  "I apologize, I'm having trouble. Let me connect you with our team."

\* _generateResponse
generateResponse(gen) == OrElse(gen, "How can I help you further?")

\* _generateEmergencyResponse
generateEmergencyResponse(gen) == OrElse(gen, EmergencyScript)

\* _generateTransferResponse
generateTransferResponse(gen, isBusinessHours) ==
  IF isBusinessHours THEN OrElse(gen, TransferOpenScript)
  ELSE OrElse(gen, TransferClosedScript)

\* _generateTriageQuestion
generateTriageQuestion(gen, patientName) ==
  OrElse(gen, "Thank you"
              \o (IF Truthy(patientName) THEN ", " \o splitSpace(patientName)[1] ELSE "")
              \o ". How can I help you today?")

\* _generateConfusionExit
generateConfusionExit(gen) == OrElse(gen, ConfusionScript)

\* _generateSuccessExit
generateSuccessExit(gen) == OrElse(gen, SuccessScript)

(***************************************************************************)
(* Classification collaborator replies                                     *)
(***************************************************************************)
\* A reply is a record whose field ok is FALSE when the call failed or the
\* text holds no parsable JSON object, and which otherwise carries the fields
\* of the parsed object.

\* _extractIdentity: a failure is caught and both fields stay null
extractIdentity(reply) ==
  IF ~reply.ok THEN [name |-> null, dob |-> null]
  ELSE [name |-> IF Truthy(reply.name) THEN reply.name ELSE null,
        dob |-> IF Truthy(reply.dob) THEN reply.dob ELSE null]

\* _analyzeAppointmentIntent: the parsed object as it is, else intent "other"
analyzeAppointmentIntent(reply) ==
  IF ~reply.ok THEN [intent |-> "other", doctorName |-> null]
  ELSE [intent |-> reply.intent, doctorName |-> reply.doctorName]

(***************************************************************************)
(* Appointment handling                                                    *)
(***************************************************************************)
\* transcript.slice(-6) rendered "Heidi: ..." / "Patient: ..." joined by \n
RECURSIVE joinLines(_)
joinLines(lines) ==
  IF Len(lines) = 0 THEN ""
  ELSE IF Len(lines) = 1 THEN lines[1]
  ELSE lines[1] \o "\n" \o joinLines(Tail(lines))

recentHistoryOf(transcript) ==
  LET n == Len(transcript)
      last6 == SubSeq(transcript, IF n > 6 THEN n - 5 ELSE 1, n)
  IN joinLines([i \in 1..Len(last6) |->
       (IF last6[i].role = "assistant" THEN "Heidi" ELSE "Patient")
         \o ": " \o last6[i].content])

\* names of the doctors offered as alternatives
\* (filter booking_rules?.accepts_new_patients !== false)
availableDoctorsOf(clinicConfig) ==
  {clinicConfig.staff_directory[k].name :
     k \in {j \in 1..Len(clinicConfig.staff_directory) :
              AcceptsNotFalse(clinicConfig.staff_directory[j].booking_rules)}}

\* _handleAppointmentFlow: first appointment turn.  `decision' names the
\* instruction branch taken, `doctor' the directory index of the doctor found
handleAppointmentFlow(message, clinicConfig, patientName, isBusinessHours, gen) ==
  LET result(doctor, decision) ==
        [response |-> generateResponse(gen), decision |-> decision, doctor |-> doctor,
         alternatives |-> IF decision = "refuse_not_accepting"
                            THEN availableDoctorsOf(clinicConfig) ELSE {}]
      decide(doctorMention, doctor, bookingRules) ==
        result(doctor,
          IF doctorMention # null
            THEN IF doctor # 0 /\ ~AcceptsTruthy(bookingRules) THEN "refuse_not_accepting"
                 ELSE IF ~isBusinessHours THEN "after_hours_noted"
                 ELSE IF RequiresApproval(bookingRules) THEN "approval_noted"
                 ELSE "offer_slots"
            ELSE "ask_preference")
      lookup(doctorMention, doctor) ==
        decide(doctorMention, doctor,
               IF doctor = 0 THEN NoRules
               ELSE clinicConfig.staff_directory[doctor].booking_rules)
      mention(doctorMention) ==
        lookup(doctorMention,
               IF doctorMention = null THEN 0
               ELSE FindStaff(clinicConfig.staff_directory, doctorMention))
  IN mention(Memo_extractDoctorName[clinicConfig][message])

\* the first directory entry offered for "any doctor"
\* (find booking_rules?.accepts_new_patients !== false), 0 when there is none
firstAvailableOf(staffDirectory) ==
  LET first(ok) == IF ok = {} THEN 0 ELSE SetMin(ok)
  IN first({k \in 1..Len(staffDirectory) :
              AcceptsNotFalse(staffDirectory[k].booking_rules)})

\* the confirming_time branch of _continueAppointmentFlow (lines 1616-1661):
\* the doctor is the one most recently mentioned in the recent history
confirmingTime(base, recentHistory, staffDirectory) ==
  LET confirm(histDoctor, histRules) ==
        IF RequiresApproval(histRules)
          THEN [base EXCEPT !.noted = TRUE, !.decision = "approval_noted",
                            !.doctor = histDoctor]
          ELSE [base EXCEPT !.booked = TRUE, !.decision = "confirm_booking",
                            !.doctor = histDoctor]
      found(histDoctor) ==
        confirm(histDoctor, IF histDoctor = 0 THEN NoRules
                            ELSE staffDirectory[histDoctor].booking_rules)
  IN found(extractDoctorFromHistory(recentHistory, staffDirectory))

\* _continueAppointmentFlow: every later appointment turn
continueAppointmentFlow(message, conversationState, clinicConfig, ai) ==
  LET isBusinessHours == conversationState.isBusinessHours
      staffDirectory == clinicConfig.staff_directory
      base == [response |-> generateResponse(ai.gen), booked |-> FALSE,
               noted |-> FALSE, needsTransfer |-> FALSE,
               decision |-> "continue", doctor |-> 0, alternatives |-> {}]
      branch(doctorMention, doctor, bookingRules, intentAnalysis) ==
        IF doctorMention # null /\ doctor # 0 /\ ~AcceptsTruthy(bookingRules)
          THEN [base EXCEPT !.decision = "refuse_not_accepting", !.doctor = doctor,
                            !.alternatives = availableDoctorsOf(clinicConfig)]
        ELSE IF doctorMention # null /\ ~isBusinessHours /\ doctor # 0
          THEN [base EXCEPT !.noted = TRUE, !.decision = "after_hours_noted",
                            !.doctor = doctor]
        ELSE IF doctorMention # null /\ doctor # 0
          THEN [base EXCEPT !.decision = "offer_slots", !.doctor = doctor]
        ELSE IF Memo_wantsAnyDoctor[message]
          THEN IF ~isBusinessHours
                 THEN [base EXCEPT !.noted = TRUE, !.decision = "after_hours_noted"]
                 ELSE [base EXCEPT !.decision = "offer_slots",
                                   !.doctor = firstAvailableOf(staffDirectory)]
        ELSE IF intentAnalysis.intent = "accepting_doctor"
          THEN [base EXCEPT !.decision = "offer_slots"]
        ELSE IF intentAnalysis.intent = "confirming_time"
          THEN confirmingTime(base, recentHistoryOf(conversationState.transcript),
                              staffDirectory)
        ELSE IF Memo_wantsPerson[message]
          THEN [base EXCEPT !.needsTransfer = TRUE, !.decision = "transfer"]
        ELSE base
      lookup(doctorMention, doctor) ==
        branch(doctorMention, doctor,
               IF doctor = 0 THEN NoRules ELSE staffDirectory[doctor].booking_rules,
               analyzeAppointmentIntent(ai.apptIntent))
      mention(doctorMention) ==
        lookup(doctorMention,
               IF doctorMention = null THEN 0
               ELSE FindStaff(staffDirectory, doctorMention))
  IN mention(Memo_extractDoctorName[clinicConfig][message])

\* _handleClinicalFlow
handleClinicalFlow(message, isBusinessHours, gen) ==
  [response |-> generateResponse(gen), urgent |-> Memo_isUrgent[message]]

(***************************************************************************)
(* Inbound engine                                                          *)
(***************************************************************************)
ReferenceError == "ReferenceError: fallbackResponses is not defined"

\* the validation of the identity request generated in GREETING when the
\* caller already stated an intent (lines 745-755)
ValidIntentAck(text) ==
  LET lowerResponse == toLowerCase(text)
  IN /\ \/ includes(lowerResponse, "name")
        \/ includes(lowerResponse, "identity")
        \/ includes(lowerResponse, "birth")
        \/ includes(lowerResponse, "dob")
     /\ ~includes(lowerResponse, "this is the")
     /\ ~includes(lowerResponse, "welcome to")
     /\ ~includes(lowerResponse, "thank you for calling")
     /\ ~includes(lowerResponse, "how may i")
     /\ ~includes(lowerResponse, "closed")

\* the validation of the plain identity request (lines 775-781)
ValidIdentityRequest(text) ==
  LET lowerResponse == toLowerCase(text)
  IN /\ \/ includes(lowerResponse, "name")
        \/ includes(lowerResponse, "birth")
        \/ includes(lowerResponse, "dob")
     /\ ~includes(lowerResponse, "this is")
     /\ ~includes(lowerResponse, "welcome")

Memo_ValidIntentAck == [t \in Utterances |-> ValidIntentAck(t)]

Memo_ValidIdentityRequest == [t \in Utterances |-> ValidIdentityRequest(t)]

\* the locals of processInboundMessage as initialised at lines 652-660
\* (error: the exception that ends the turn, null when it returns;
\*  early: the turn returned from the emergency or transfer override;
\*  decision, alternatives: the instruction branch the appointment helper
\*  took and the doctors it put forward as alternatives)
Locals(cs) ==
  [nextState |-> cs.currentState, aiResponse |-> "", flags |-> cs.flags,
   newConfusionCount |-> cs.confusionCount, patientName |-> cs.patientName,
   patientDob |-> cs.patientDob, intent |-> cs.intent, isComplete |-> FALSE,
   finalOutcome |-> null, error |-> null, early |-> FALSE,
   decision |-> "none", alternatives |-> {}, doctor |-> 0]

\* an utterance produced by a generation helper: a failed call ends the turn
Say(l, text) ==
  IF text = REJECT THEN [l EXCEPT !.error = "collaborator call rejected"]
  ELSE [l EXCEPT !.aiResponse = text]

\* case GREETING (lines 724-790)
GreetingCase(cs, patientMessage, ai) ==
  LET l == [Locals(cs) EXCEPT !.nextState = INBOUND_STATES.IDENTIFY]
      earlyIntent == Memo_classifyIntent[patientMessage]
      aiGeneratedResponse == generateResponse(ai.gen)
  IN IF earlyIntent # "unclear"
       THEN \* both the rejected-text branch and the catch block read the
            \* undeclared fallbackResponses
            IF aiGeneratedResponse # REJECT /\ Memo_ValidIntentAck[aiGeneratedResponse]
              THEN [l EXCEPT !.intent = earlyIntent, !.aiResponse = aiGeneratedResponse]
              ELSE [l EXCEPT !.intent = earlyIntent, !.error = ReferenceError]
       ELSE IF aiGeneratedResponse # REJECT /\ Memo_ValidIdentityRequest[aiGeneratedResponse]
              THEN [l EXCEPT !.aiResponse = aiGeneratedResponse]
              ELSE [l EXCEPT !.aiResponse = IdentifyScript]

\* the confusion rule shared by IDENTIFY and TRIAGE (lines 897-910, 979-992)
Unrecognized(l, ai) ==
  LET n == l.newConfusionCount + 1
  IN IF n >= 3
       THEN Say([l EXCEPT !.newConfusionCount = n,
                          !.nextState = INBOUND_STATES.CONFUSION_EXIT,
                          !.isComplete = TRUE,
                          !.finalOutcome = "confusion_escalation"],
                generateConfusionExit(ai.gen))
       ELSE Say([l EXCEPT !.newConfusionCount = n], generateResponse(ai.gen))

\* the transfer intent as handled in IDENTIFY and TRIAGE (lines 841-860, 946-967)
TransferIntent(l, isBusinessHours, ai) ==
  IF isBusinessHours
    THEN Say([l EXCEPT !.nextState = INBOUND_STATES.TRANSFER_FLOW,
                       !.flags = Append(l.flags, "transfer_requested"),
                       !.isComplete = TRUE, !.finalOutcome = "live_transfer"],
             generateResponse(ai.gen))
    ELSE Say([l EXCEPT !.nextState = INBOUND_STATES.MESSAGE_FLOW],
             generateResponse(ai.gen))

\* the clinical intent as handled in IDENTIFY and TRIAGE (lines 815-831, 929-945)
ClinicalIntent(l, message, isBusinessHours, ai) ==
  LET clinicalResult == handleClinicalFlow(message, isBusinessHours, ai.gen)
  IN IF clinicalResult.urgent
       THEN Say([l EXCEPT !.nextState = INBOUND_STATES.TRANSFER_FLOW,
                          !.flags = Append(l.flags, "clinical_concern_urgent")],
                clinicalResult.response)
       ELSE Say([l EXCEPT !.nextState = INBOUND_STATES.MESSAGE_FLOW,
                          !.flags = Append(l.flags, "clinical_concern_logged")],
                clinicalResult.response)

\* the appointment intent as handled in IDENTIFY and TRIAGE (lines 806-814, 920-928)
AppointmentIntent(l, message, clinicConfig, isBusinessHours, ai) ==
  LET handled(r) ==
        Say([l EXCEPT !.nextState = INBOUND_STATES.APPOINTMENT_FLOW,
                      !.decision = r.decision, !.alternatives = r.alternatives,
                      !.doctor = r.doctor],
            r.response)
  IN handled(handleAppointmentFlow(message, clinicConfig, l.patientName,
                                   isBusinessHours, ai.gen))

\* the admin intent as handled in IDENTIFY and TRIAGE (lines 832-840, 968-976)
AdminIntent(l, ai) ==
  Say([l EXCEPT !.nextState = INBOUND_STATES.MESSAGE_FLOW,
                !.flags = Append(l.flags, "admin_request_logged")],
      generateResponse(ai.gen))

\* IDENTIFY that accepts a name without a date of birth
IdentifyCase_NameSuffices(cs, patientMessage, clinicConfig, ai) ==
  LET l == Locals(cs)
      identityInfo == extractIdentity(ai.identity)
      identifyPhaseIntent == Memo_classifyIntent[patientMessage]
  IN IF Truthy(identityInfo.name)
       THEN LET k == [l EXCEPT !.patientName = identityInfo.name,
                               !.patientDob = identityInfo.dob]
            IN CASE l.intent = "appointment" ->
                      AppointmentIntent(k, "I want to book an appointment",
                                        clinicConfig, cs.isBusinessHours, ai)
                 [] l.intent = "clinical" ->
                      ClinicalIntent(k, "health concern", cs.isBusinessHours, ai)
                 [] l.intent = "admin" -> AdminIntent(k, ai)
                 [] l.intent = "transfer" ->
                      TransferIntent(k, cs.isBusinessHours, ai)
                 [] OTHER ->
                      Say([k EXCEPT !.nextState = INBOUND_STATES.TRIAGE],
                          generateTriageQuestion(ai.gen, k.patientName))
     ELSE IF identifyPhaseIntent # "unclear" /\ ~Truthy(l.intent)
       THEN Say([l EXCEPT !.intent = identifyPhaseIntent], generateResponse(ai.gen))
     ELSE IF Memo_isRefusal[patientMessage]
       THEN Say([l EXCEPT !.nextState = INBOUND_STATES.MESSAGE_FLOW,
                          !.flags = Append(l.flags, "identity_not_verified")],
                generateResponse(ai.gen))
     ELSE Unrecognized(l, ai)

\* case IDENTIFY (lines 792-912)
IdentifyCase(cs, patientMessage, clinicConfig, ai) ==
  LET l == Locals(cs)
      identityInfo == extractIdentity(ai.identity)
      identifyPhaseIntent == Memo_classifyIntent[patientMessage]
  IN IF Truthy(identityInfo.name) /\ Truthy(identityInfo.dob)
       THEN LET k == [l EXCEPT !.patientName = identityInfo.name,
                               !.patientDob = identityInfo.dob]
            IN CASE l.intent = "appointment" ->
                      AppointmentIntent(k, "I want to book an appointment",
                                        clinicConfig, cs.isBusinessHours, ai)
                 [] l.intent = "clinical" ->
                      ClinicalIntent(k, "health concern", cs.isBusinessHours, ai)
                 [] l.intent = "admin" -> AdminIntent(k, ai)
                 [] l.intent = "transfer" ->
                      TransferIntent(k, cs.isBusinessHours, ai)
                 [] OTHER ->
                      Say([k EXCEPT !.nextState = INBOUND_STATES.TRIAGE],
                          generateTriageQuestion(ai.gen, k.patientName))
     ELSE IF identifyPhaseIntent # "unclear" /\ ~Truthy(l.intent)
       THEN Say([l EXCEPT !.intent = identifyPhaseIntent], generateResponse(ai.gen))
     ELSE IF Memo_isRefusal[patientMessage]
       THEN Say([l EXCEPT !.nextState = INBOUND_STATES.MESSAGE_FLOW,
                          !.flags = Append(l.flags, "identity_not_verified")],
                generateResponse(ai.gen))
     ELSE Unrecognized(l, ai)

\* case TRIAGE (lines 914-994)
TriageCase(cs, patientMessage, clinicConfig, ai) ==
  LET detectedIntent == Memo_classifyIntent[patientMessage]
      l == [Locals(cs) EXCEPT !.intent = detectedIntent]
  IN CASE detectedIntent = "appointment" ->
            AppointmentIntent(l, patientMessage, clinicConfig, cs.isBusinessHours, ai)
       [] detectedIntent = "clinical" ->
            ClinicalIntent(l, patientMessage, cs.isBusinessHours, ai)
       [] detectedIntent = "transfer" -> TransferIntent(l, cs.isBusinessHours, ai)
       [] detectedIntent = "admin" -> AdminIntent(l, ai)
       [] OTHER -> Unrecognized(l, ai)

\* case APPOINTMENT_FLOW (lines 996-1042); cs carries the transcript with the
\* patient message already pushed
AppointmentCase(cs, patientMessage, clinicConfig, ai) ==
  LET l == Locals(cs)
  IN IF Memo_isDone[patientMessage]
       THEN IF Contains(l.flags, "appointment_noted") \/ Contains(l.flags, "appointment_booked")
              THEN Say([l EXCEPT !.nextState = INBOUND_STATES.SUCCESS_EXIT,
                                 !.isComplete = TRUE,
                                 !.finalOutcome =
                                    IF Contains(l.flags, "appointment_booked")
                                      THEN "appointment_booked" ELSE "appointment_noted"],
                       generateResponse(ai.gen))
              ELSE Say([l EXCEPT !.nextState = INBOUND_STATES.SUCCESS_EXIT,
                                 !.isComplete = TRUE, !.finalOutcome = "call_ended"],
                       generateSuccessExit(ai.gen))
       ELSE LET continued(appointmentResult, d) ==
                  IF appointmentResult.booked
                    THEN Say([d EXCEPT !.flags = Append(l.flags, "appointment_booked")],
                             appointmentResult.response)
                  ELSE IF appointmentResult.noted
                    THEN Say([d EXCEPT !.flags = Append(l.flags, "appointment_noted")],
                             appointmentResult.response)
                  ELSE IF appointmentResult.needsTransfer
                    THEN Say([d EXCEPT !.nextState = INBOUND_STATES.TRANSFER_FLOW],
                             appointmentResult.response)
                  ELSE Say(d, appointmentResult.response)
                decided(appointmentResult) ==
                  continued(appointmentResult,
                            [l EXCEPT !.decision = appointmentResult.decision,
                                      !.alternatives = appointmentResult.alternatives,
                                      !.doctor = appointmentResult.doctor])
            IN decided(continueAppointmentFlow(patientMessage, cs, clinicConfig, ai))

\* case CLINICAL_FLOW (lines 1044-1053)
ClinicalCase(cs, ai) ==
  Say([Locals(cs) EXCEPT !.nextState = INBOUND_STATES.MESSAGE_FLOW],
      generateResponse(ai.gen))

\* case MESSAGE_FLOW (lines 1055-1069)
MessageCase(cs, patientMessage, ai) ==
  IF Memo_isDone[patientMessage]
    THEN Say([Locals(cs) EXCEPT !.nextState = INBOUND_STATES.SUCCESS_EXIT,
                                !.isComplete = TRUE,
                                !.finalOutcome = "message_logged"],
             generateSuccessExit(ai.gen))
    ELSE Say(Locals(cs), generateResponse(ai.gen))

\* case TRANSFER_FLOW confirming the transfer whatever the hours
TransferCase_AlwaysLive(cs, ai) ==
  Say([Locals(cs) EXCEPT !.isComplete = TRUE, !.finalOutcome = "live_transfer"],
      generateResponse(ai.gen))

\* case TRANSFER_FLOW (lines 1071-1091)
TransferCase(cs, ai) ==
  IF cs.isBusinessHours
    THEN Say([Locals(cs) EXCEPT !.isComplete = TRUE, !.finalOutcome = "live_transfer"],
             generateResponse(ai.gen))
    ELSE Say([Locals(cs) EXCEPT !.nextState = INBOUND_STATES.MESSAGE_FLOW],
             generateResponse(ai.gen))

\* default (lines 1093-1099)
DefaultCase(cs) ==
  [Locals(cs) EXCEPT !.aiResponse = SystemErrorScript, !.isComplete = TRUE,
                     !.finalOutcome = "system_error_escalation"]

\* a faulty safe-start phase: the transfer check placed before the emergency
\* check
SafeStart_TransferFirst(message, clinicConfig) ==
  IF Memo_detectTransferRequest[clinicConfig][message] THEN "transfer"
  ELSE IF Memo_detectEmergency[clinicConfig][message] THEN "emergency"
  ELSE "none"

\* phase 1, "safe-start processing" (lines 666-722): which of the two
\* overrides the message triggers, the emergency check coming first
SafeStart(message, clinicConfig) ==
  IF Memo_detectEmergency[clinicConfig][message] THEN "emergency"
  ELSE IF Memo_detectTransferRequest[clinicConfig][message] THEN "transfer"
  ELSE "none"

\* a faulty emergency override: the conversation is left open
EmergencyOverride_StaysOpen(cs, ai) ==
  Say([Locals(cs) EXCEPT !.nextState = INBOUND_STATES.EMERGENCY_EXIT,
                         !.flags = Append(cs.flags, "EMERGENCY_DETECTED"),
                         !.finalOutcome = "emergency_redirect",
                         !.early = TRUE],
      generateEmergencyResponse(ai.gen))

\* the emergency override (lines 666-690)
EmergencyOverride(cs, ai) ==
  Say([Locals(cs) EXCEPT !.nextState = INBOUND_STATES.EMERGENCY_EXIT,
                         !.flags = Append(cs.flags, "EMERGENCY_DETECTED"),
                         !.isComplete = TRUE,
                         !.finalOutcome = "emergency_redirect",
                         !.early = TRUE],
      generateEmergencyResponse(ai.gen))

\* a faulty transfer override: a live transfer is promised after hours too
TransferOverride_AlwaysLive(cs, ai) ==
  Say([Locals(cs) EXCEPT !.nextState = INBOUND_STATES.TRANSFER_FLOW,
                         !.flags = Append(cs.flags, "TRANSFER_REQUESTED"),
                         !.isComplete = TRUE,
                         !.finalOutcome = "live_transfer",
                         !.early = TRUE],
      generateTransferResponse(ai.gen, cs.isBusinessHours))

\* the transfer override starting from an empty list of flags
TransferOverride_ResetsFlags(cs, ai) ==
  Say([Locals(cs) EXCEPT !.nextState = INBOUND_STATES.TRANSFER_FLOW,
                         !.flags = <<"TRANSFER_REQUESTED">>,
                         !.isComplete = TRUE,
                         !.finalOutcome =
                            IF cs.isBusinessHours THEN "live_transfer"
                            ELSE "message_for_callback",
                         !.early = TRUE],
      generateTransferResponse(ai.gen, cs.isBusinessHours))

\* the transfer override (lines 692-720)
TransferOverride(cs, ai) ==
  Say([Locals(cs) EXCEPT !.nextState = INBOUND_STATES.TRANSFER_FLOW,
                         !.flags = Append(cs.flags, "TRANSFER_REQUESTED"),
                         !.isComplete = TRUE,
                         !.finalOutcome =
                            IF cs.isBusinessHours THEN "live_transfer"
                            ELSE "message_for_callback",
                         !.early = TRUE],
      generateTransferResponse(ai.gen, cs.isBusinessHours))

\* a transcript entry that loses its state tag
Entry_Untagged(role, content, state) == [role |-> role, content |-> content, state |-> null]

\* one transcript entry (the timestamp is not modelled)
Entry(role, content, state) == [role |-> role, content |-> content, state |-> state]

\* processInboundMessage (lines 633-1123).  The result carries
\*   error : the exception that ended the turn, null when it returned
\*   state : the ConversationState returned (the input state when it threw)
\*   arg   : the object passed in, as the call leaves it (transcript.push
\*           mutates its transcript array in place)
\*   decision : the appointment instruction branch taken, "none" otherwise
\*   alternatives : the doctors that instruction lists as alternatives
\*   doctor : the directory index of the doctor that instruction names, 0 for none
processInboundMessage(conversationState, patientMessage, clinicConfig, ai) ==
  LET cs == conversationState
      pushed == [cs EXCEPT !.transcript =
                   Append(@, Entry("user", patientMessage, cs.currentState))]
      returned(l, transcript) ==
        IF l.early
          THEN [cs EXCEPT !.currentState = l.nextState, !.transcript = transcript,
                          !.flags = l.flags, !.isComplete = l.isComplete,
                          !.finalOutcome = l.finalOutcome, !.aiResponse = l.aiResponse]
          ELSE [cs EXCEPT !.currentState = l.nextState, !.transcript = transcript,
                          !.patientIdentified = Truthy(l.patientName),
                          !.patientName = l.patientName, !.patientDob = l.patientDob,
                          !.intent = l.intent, !.flags = l.flags,
                          !.confusionCount = l.newConfusionCount,
                          !.isComplete = l.isComplete,
                          !.finalOutcome = l.finalOutcome, !.aiResponse = l.aiResponse]
      reply(l, transcript) ==
        IF l.error # null
          THEN [error |-> l.error, state |-> cs, arg |-> pushed,
                decision |-> l.decision, alternatives |-> l.alternatives,
                doctor |-> l.doctor]
          ELSE [error |-> null, state |-> returned(l, transcript),
                arg |-> [cs EXCEPT !.transcript = transcript],
                decision |-> l.decision, alternatives |-> l.alternatives,
                doctor |-> l.doctor]
      finish(l) ==
        reply(l, Append(pushed.transcript, Entry("assistant", l.aiResponse, l.nextState)))
      dispatch(safeStart) ==
        IF safeStart = "emergency" THEN EmergencyOverride(cs, ai)
        ELSE IF safeStart = "transfer" THEN TransferOverride(cs, ai)
        ELSE CASE cs.currentState = INBOUND_STATES.GREETING ->
                    GreetingCase(cs, patientMessage, ai)
               [] cs.currentState = INBOUND_STATES.IDENTIFY ->
                    IdentifyCase(cs, patientMessage, clinicConfig, ai)
               [] cs.currentState = INBOUND_STATES.TRIAGE ->
                    TriageCase(cs, patientMessage, clinicConfig, ai)
               [] cs.currentState = INBOUND_STATES.APPOINTMENT_FLOW ->
                    AppointmentCase(pushed, patientMessage, clinicConfig, ai)
               [] cs.currentState = INBOUND_STATES.CLINICAL_FLOW ->
                    ClinicalCase(cs, ai)
               [] cs.currentState = INBOUND_STATES.MESSAGE_FLOW ->
                    MessageCase(cs, patientMessage, ai)
               [] cs.currentState = INBOUND_STATES.TRANSFER_FLOW ->
                    TransferCase(cs, ai)
               [] OTHER -> DefaultCase(cs)
  IN finish(dispatch(SafeStart(patientMessage, clinicConfig)))

\* the scripted greetings of initInboundConversation (lines 234-235)
openGreeting(clinicName) ==
  "Thanks for calling " \o clinicName
    \o ". I'm Heidi, the clinic's digital assistant. How can I help you today?"

closedGreeting(clinicName) ==
  "Thanks for calling " \o clinicName
    \o ". I'm Heidi, the clinic's digital assistant. Our clinic is currently closed, but I can take a message or help with urgent care options. How can I help?"

\* a faulty start of call: the generated greeting is used as it comes
initInboundConversation_Unchecked(clinicConfig, callContext, gen) ==
  LET isBusinessHours == isBusinessHoursAt(clinicConfig, callContext.day, callContext.time)
      greeting ==
        IF Truthy(gen) THEN gen
        ELSE IF isBusinessHours THEN openGreeting(clinicConfig.clinic_name)
        ELSE closedGreeting(clinicConfig.clinic_name)
  IN [currentState |-> INBOUND_STATES.GREETING,
      isBusinessHours |-> isBusinessHours,
      transcript |-> <<Entry("assistant", greeting, INBOUND_STATES.GREETING)>>,
      patientIdentified |-> FALSE, patientName |-> null, patientDob |-> null,
      intent |-> null, flags |-> <<>>, confusionCount |-> 0,
      isComplete |-> FALSE, finalOutcome |-> null, aiResponse |-> null]

\* initInboundConversation (lines 207-290); isComplete, finalOutcome and
\* aiResponse are absent from the object it returns and read as
\* undefined: modelled FALSE / null / null
initInboundConversation(clinicConfig, callContext, gen) ==
  LET isBusinessHours == isBusinessHoursAt(clinicConfig, callContext.day, callContext.time)
      clinicName == IF Truthy(clinicConfig.clinic_name) THEN clinicConfig.clinic_name
                    ELSE "the clinic"
      greeting ==
        IF ~Truthy(gen)
          THEN IF isBusinessHours THEN openGreeting(clinicName) ELSE closedGreeting(clinicName)
        ELSE IF isBusinessHours /\ (includes(toLowerCase(gen), "closed")
                                    \/ includes(toLowerCase(gen), "after hours"))
          THEN openGreeting(clinicName)
        ELSE IF ~isBusinessHours /\ ~includes(toLowerCase(gen), "closed")
          THEN closedGreeting(clinicName)
        ELSE gen
  IN [currentState |-> INBOUND_STATES.GREETING,
      isBusinessHours |-> isBusinessHours,
      transcript |-> <<Entry("assistant", greeting, INBOUND_STATES.GREETING)>>,
      patientIdentified |-> FALSE, patientName |-> null, patientDob |-> null,
      intent |-> null, flags |-> <<>>, confusionCount |-> 0,
      isComplete |-> FALSE, finalOutcome |-> null, aiResponse |-> null]

(***************************************************************************)
(* Outbound engine                                                         *)
(***************************************************************************)
TypeError == "TypeError: Cannot destructure property 'hasSideEffects' of undefined"

\* _analyzeSideEffects (lines 1866-1904): the function falls off its end,
\* returning undefined, when the call fails or the reply holds no JSON
analyzeSideEffects(reply) ==
  IF reply.ok
    THEN [defined |-> TRUE, hasSideEffects |-> reply.hasSideEffects,
          severeSideEffects |-> reply.severeSideEffects]
    ELSE [defined |-> FALSE, hasSideEffects |-> FALSE, severeSideEffects |-> FALSE]

\* _analyzeAdherence (lines 1911-1952): neutral result on failure
analyzeAdherence(reply) ==
  IF reply.ok
    THEN [goodAdherence |-> reply.goodAdherence, poorAdherence |-> reply.poorAdherence]
    ELSE [goodAdherence |-> FALSE, poorAdherence |-> FALSE]

\* _analyzeNonAdherenceReason (lines 1959-2001)
analyzeNonAdherenceReason(reply) ==
  IF reply.ok
    THEN [reason |-> IF Truthy(reply.reason) THEN reply.reason ELSE "other",
          details |-> IF Truthy(reply.details) THEN reply.details ELSE ""]
    ELSE [reason |-> "other", details |-> ""]

\* the followupDate computed by _calculateFollowupDate at call start
FollowupDate == "6 November"

\* the locals of processOutboundMessage as initialised at lines 389-395
OutLocals(cs) ==
  [nextState |-> cs.currentState, aiResponse |-> "", newFlags |-> cs.flags,
   isComplete |-> FALSE, escalatedToDoctor |-> cs.escalatedToDoctor,
   patientName |-> cs.patientName, patientIdentified |-> cs.patientIdentified,
   error |-> null]

\* response.text || script, for generateFollowupResponse
\* (the fallback scripts of the follow-up call are shortened here: the
\* follow-up engine never inspects wording, only states, flags and outcomes)
FollowupSay(l, gen, script) == Say(l, OrElse(gen, script))

\* a faulty CHECK_SIDE_EFFECTS case: a severe report escalates only when the
\* analysis also sets hasSideEffects
SideEffectsCase_NeedsBoth(cs, ai) ==
  LET l == OutLocals(cs)
      sideEffectAnalysis == analyzeSideEffects(ai.sideEffects)
  IN IF ~sideEffectAnalysis.defined THEN [l EXCEPT !.error = TypeError]
     ELSE IF sideEffectAnalysis.severeSideEffects /\ sideEffectAnalysis.hasSideEffects
       THEN FollowupSay([l EXCEPT !.newFlags = Append(l.newFlags, "URGENT: severe_side_effects"),
                                  !.escalatedToDoctor = TRUE,
                                  !.nextState = OUTBOUND_STATES.ESCALATED],
                        ai.gen, "I'm quite concerned about what you're describing.")
       ELSE FollowupSay([l EXCEPT !.nextState = OUTBOUND_STATES.CHECK_ADHERENCE],
                        ai.gen, "Good to know. Have you been able to take the medication once a day?")

\* CHECK_SIDE_EFFECTS that flags severe side effects without escalating
SideEffectsCase_FlagOnly(cs, ai) ==
  LET l == OutLocals(cs)
      sideEffectAnalysis == analyzeSideEffects(ai.sideEffects)
  IN IF ~sideEffectAnalysis.defined THEN [l EXCEPT !.error = TypeError]
     ELSE IF sideEffectAnalysis.severeSideEffects
       THEN FollowupSay([l EXCEPT !.newFlags = Append(l.newFlags, "URGENT: severe_side_effects"),
                                  !.nextState = OUTBOUND_STATES.ESCALATED],
                        ai.gen, "I'm quite concerned about what you're describing.")
       ELSE FollowupSay([l EXCEPT !.newFlags =
                                     IF sideEffectAnalysis.hasSideEffects
                                       THEN Append(l.newFlags, "side_effects_reported")
                                       ELSE l.newFlags,
                                  !.nextState = OUTBOUND_STATES.CHECK_ADHERENCE],
                        ai.gen, "Good to know. Have you been able to take the medication once a day?")

\* case CHECK_SIDE_EFFECTS (lines 437-477)
SideEffectsCase(cs, ai) ==
  LET l == OutLocals(cs)
      sideEffectAnalysis == analyzeSideEffects(ai.sideEffects)
  IN IF ~sideEffectAnalysis.defined THEN [l EXCEPT !.error = TypeError]
     ELSE IF sideEffectAnalysis.severeSideEffects
       THEN FollowupSay([l EXCEPT !.newFlags = Append(l.newFlags, "URGENT: severe_side_effects"),
                                  !.escalatedToDoctor = TRUE,
                                  !.nextState = OUTBOUND_STATES.ESCALATED],
                        ai.gen, "I'm quite concerned about what you're describing.")
       ELSE FollowupSay([l EXCEPT !.newFlags =
                                     IF sideEffectAnalysis.hasSideEffects
                                       THEN Append(l.newFlags, "side_effects_reported")
                                       ELSE l.newFlags,
                                  !.nextState = OUTBOUND_STATES.CHECK_ADHERENCE],
                        ai.gen, "Good to know. Have you been able to take the medication once a day?")

\* case CHECK_ADHERENCE (lines 479-512)
AdherenceCase(cs, ai) ==
  LET l == OutLocals(cs)
      adherenceAnalysis == analyzeAdherence(ai.adherence)
  IN IF adherenceAnalysis.poorAdherence
       THEN FollowupSay([l EXCEPT !.newFlags = Append(l.newFlags, "adherence_issue"),
                                  !.nextState = OUTBOUND_STATES.PROBE_REASON],
                        ai.gen, "Can you tell me a bit more about what made it difficult?")
       ELSE FollowupSay([l EXCEPT !.nextState = OUTBOUND_STATES.CLOSING],
                        ai.gen, "That's wonderful to hear! They'll check in again around "
                                  \o cs.followupDate \o ".")

\* case PROBE_REASON ending the call at once, without the closing question
ProbeReasonCase_SkipsClosing(cs, ai) ==
  LET l == OutLocals(cs)
      reasonAnalysis == analyzeNonAdherenceReason(ai.reason)
      f1 == Append(l.newFlags, "reason: " \o reasonAnalysis.reason)
  IN FollowupSay([l EXCEPT !.newFlags = f1, !.nextState = OUTBOUND_STATES.COMPLETE,
                           !.isComplete = TRUE],
                 ai.gen, "Thank you for sharing that. Goodbye!")

\* case PROBE_REASON (lines 514-534)
ProbeReasonCase(cs, ai) ==
  LET l == OutLocals(cs)
      reasonAnalysis == analyzeNonAdherenceReason(ai.reason)
      f1 == Append(l.newFlags, "reason: " \o reasonAnalysis.reason)
      f2 == IF Truthy(reasonAnalysis.details)
              THEN Append(f1, "reason_details: " \o reasonAnalysis.details) ELSE f1
  IN FollowupSay([l EXCEPT !.newFlags = f2, !.nextState = OUTBOUND_STATES.CLOSING],
                 ai.gen, "Thank you for sharing that. They'll be in touch around "
                           \o cs.followupDate \o ".")

\* CLOSING that keeps the call open after recording an additional note
ClosingCase_KeepsListening(cs, patientMessage, ai) ==
  LET l == OutLocals(cs)
  IN IF Memo_isDoneClosing[patientMessage]
       THEN FollowupSay([l EXCEPT !.nextState = OUTBOUND_STATES.COMPLETE,
                                  !.isComplete = TRUE],
                        ai.gen, "Thank you so much for taking the time to chat. Goodbye!")
       ELSE FollowupSay([l EXCEPT !.newFlags = Append(l.newFlags, "additional_note: " \o patientMessage)],
                        ai.gen, "Thank you for sharing that. Anything else?")

\* case CLOSING (lines 553-592)
ClosingCase(cs, patientMessage, ai) ==
  LET l == [OutLocals(cs) EXCEPT !.nextState = OUTBOUND_STATES.COMPLETE,
                                 !.isComplete = TRUE]
  IN IF Memo_isDoneClosing[patientMessage]
       THEN FollowupSay(l, ai.gen, "Thank you so much for taking the time to chat. Goodbye!")
       ELSE FollowupSay([l EXCEPT !.newFlags = Append(l.newFlags, "additional_note: " \o patientMessage)],
                        ai.gen, "Thank you for sharing that. Take care, and goodbye!")

\* processOutboundMessage (lines 361-627); result as for the inbound engine
processOutboundMessage(conversationState, patientMessage, clinicConfig, ai) ==
  LET cs == conversationState
      pushed == [cs EXCEPT !.transcript =
                   Append(@, Entry("user", patientMessage, cs.currentState))]
      verified(identity) ==
        FollowupSay([(IF Truthy(identity.name)
                        THEN [OutLocals(cs) EXCEPT !.patientName = identity.name,
                                                   !.patientIdentified = TRUE]
                        ELSE OutLocals(cs))
                       EXCEPT !.nextState = OUTBOUND_STATES.CHECK_SIDE_EFFECTS],
                    ai.gen, "Thanks for confirming. Have you noticed any side effects?")
      dispatch ==
        CASE cs.currentState = OUTBOUND_STATES.OPENING ->
               FollowupSay([OutLocals(cs) EXCEPT !.nextState = OUTBOUND_STATES.VERIFY_IDENTITY],
                           ai.gen, "Could you confirm your name and date of birth for me?")
          [] cs.currentState = OUTBOUND_STATES.VERIFY_IDENTITY ->
               verified(extractIdentity(ai.identity))
          [] cs.currentState = OUTBOUND_STATES.CHECK_SIDE_EFFECTS -> SideEffectsCase(cs, ai)
          [] cs.currentState = OUTBOUND_STATES.CHECK_ADHERENCE -> AdherenceCase(cs, ai)
          [] cs.currentState = OUTBOUND_STATES.PROBE_REASON -> ProbeReasonCase(cs, ai)
          [] cs.currentState = OUTBOUND_STATES.ESCALATED ->
               FollowupSay([OutLocals(cs) EXCEPT !.nextState = OUTBOUND_STATES.COMPLETE,
                                                 !.isComplete = TRUE],
                           ai.gen, "I've noted all of that down and flagged it as urgent.")
          [] cs.currentState = OUTBOUND_STATES.CLOSING -> ClosingCase(cs, patientMessage, ai)
          [] OTHER ->
               [OutLocals(cs) EXCEPT !.aiResponse = "Thank you for your time today. Goodbye!",
                                     !.isComplete = TRUE]
      returned(l, transcript) ==
        [cs EXCEPT !.currentState = l.nextState, !.transcript = transcript,
                   !.patientIdentified = l.patientIdentified,
                   !.patientName = l.patientName, !.flags = l.newFlags,
                   !.isComplete = l.isComplete,
                   !.escalatedToDoctor = l.escalatedToDoctor,
                   !.aiResponse = l.aiResponse,
                   !.finalOutcome =
                      IF l.isComplete
                        THEN IF l.escalatedToDoctor THEN "escalated_to_clinician"
                             ELSE IF Len(l.newFlags) > 0 THEN "completed_with_flags"
                             ELSE "completed_successfully"
                        ELSE null]
      reply(l, transcript) ==
        IF l.error # null
          THEN [error |-> l.error, state |-> cs, arg |-> pushed,
                decision |-> "none", alternatives |-> {}, doctor |-> 0]
          ELSE [error |-> null, state |-> returned(l, transcript),
                arg |-> [cs EXCEPT !.transcript = transcript],
                decision |-> "none", alternatives |-> {}, doctor |-> 0]
      finish(l) ==
        reply(l, Append(pushed.transcript, Entry("assistant", l.aiResponse, l.nextState)))
  IN finish(dispatch)

\* initOutboundConversation (lines 300-355); finalOutcome and aiResponse are
\* absent from the object it returns: modelled null
initOutboundConversation(clinicConfig, gen) ==
  [currentState |-> OUTBOUND_STATES.OPENING,
   followupDate |-> FollowupDate,
   transcript |-> <<Entry("assistant",
                          IF Truthy(gen) THEN gen
                          ELSE "Hi there, this is Heidi. Is now a good time for a quick chat?",
                          OUTBOUND_STATES.OPENING)>>,
   patientIdentified |-> FALSE, patientName |-> null, flags |-> <<>>,
   isComplete |-> FALSE, escalatedToDoctor |-> FALSE,
   finalOutcome |-> null, aiResponse |-> null]

(***************************************************************************)
(* State                                                                   *)
(***************************************************************************)
\* the most patient messages a conversation processes, for each of the
\* families of runs explored below
MaxTurns == 3

MaxBookingTurns == 4

MaxConfusionTurns == 5

MaxFollowupTurns == 6

MaxEngineTurns == 2

VARIABLES
  config,                \* the configuration the client sends with each call
  conversation,          \* the inbound ConversationState the client holds
  outboundConversation,  \* the outbound ConversationState the client holds
  turn                   \* the last engine call: its inputs and its result,
                         \* with the appointment decisions of the call so far

vars == <<config, conversation, outboundConversation, turn>>

\* useState(null): no conversation started yet
NoConversation == [currentState |-> null, isComplete |-> FALSE]

NoTurn == [engine |-> "none"]

Init ==
  /\ config \in ClinicConfigs
  /\ conversation = NoConversation
  /\ outboundConversation = NoConversation
  /\ turn = NoTurn

\* the collaborator replies a turn can consume: a reply is drawn only for the
\* calls the turn makes
AiInputs(gens, identities, intents, sideEffects, adherences, reasons) ==
  [gen : gens, identity : identities, apptIntent : intents,
   sideEffects : sideEffects, adherence : adherences, reason : reasons]

\* the inbound turn makes no generation call in the default branch
InboundGens(cs, m, gens) ==
  IF /\ SafeStart(m, config) = "none"
     /\ cs.currentState \in {INBOUND_STATES.EMERGENCY_EXIT, INBOUND_STATES.SUCCESS_EXIT,
                             INBOUND_STATES.CONFUSION_EXIT}
    THEN {GenNone} ELSE gens

InboundIdentities(cs, m, identities) ==
  IF cs.currentState = INBOUND_STATES.IDENTIFY /\ SafeStart(m, config) = "none"
    THEN identities ELSE {NoReply}

InboundIntents(cs, m, intents) ==
  IF /\ cs.currentState = INBOUND_STATES.APPOINTMENT_FLOW
     /\ SafeStart(m, config) = "none"
     /\ ~Memo_isDone[m]
     /\ Memo_extractDoctorName[config][m] = null
     /\ ~Memo_wantsAnyDoctor[m]
    THEN intents ELSE {NoReply}

\* POST /inbound/start (startInboundCall of the panel): a failed start leaves
\* the client without a conversation
startInboundCall(contexts, gens) ==
  /\ conversation = NoConversation
  /\ \E callContext \in contexts, gen \in gens :
       /\ conversation' = IF gen = REJECT THEN conversation
                          ELSE initInboundConversation(config, callContext, gen)
       /\ turn' = [engine |-> "inbound_start", gen |-> gen, callContext |-> callContext,
                   error |-> IF gen = REJECT THEN "collaborator call rejected" ELSE null]
  /\ UNCHANGED <<config, outboundConversation>>

\* the appointment decisions taken in the earlier turns of the call
PastDecisions == IF turn.engine = "inbound" THEN turn.decisions ELSE {}

\* POST /inbound/message with a route that works out isBusinessHours again
\* from the configuration sent with the message
InboundTurn_Recomputes(msgs, gens, identities, intents, maxTurns) ==
  /\ conversation # NoConversation
  /\ Len(conversation.transcript) < 2 * maxTurns
  /\ \E m \in msgs :
       \E ai \in AiInputs(InboundGens(conversation, m, gens),
                          InboundIdentities(conversation, m, identities),
                          InboundIntents(conversation, m, intents),
                          {NoReply}, {NoReply}, {NoReply}) :
         \E r \in {processInboundMessage(conversation, m, config, ai)} :
            /\ conversation' =
                 [r.state EXCEPT !.isBusinessHours =
                    isBusinessHoursAt(config, CallMondayMorning.day, CallMondayMorning.time)]
            /\ turn' = [engine |-> "inbound", message |-> m, ai |-> ai,
                        clinicConfig |-> config,
                        pre |-> conversation, error |-> r.error, arg |-> r.arg,
                        decision |-> r.decision, alternatives |-> r.alternatives,
                        doctor |-> r.doctor,
                        decisions |-> PastDecisions \cup {r.decision}]
  /\ UNCHANGED <<config, outboundConversation>>

\* POST /inbound/message: one engine turn; the client adopts the returned
\* state, and keeps its own when the call fails
InboundTurn(msgs, gens, identities, intents, maxTurns) ==
  /\ conversation # NoConversation
  /\ Len(conversation.transcript) < 2 * maxTurns
  /\ \E m \in msgs :
       \E ai \in AiInputs(InboundGens(conversation, m, gens),
                          InboundIdentities(conversation, m, identities),
                          InboundIntents(conversation, m, intents),
                          {NoReply}, {NoReply}, {NoReply}) :
         \E r \in {processInboundMessage(conversation, m, config, ai)} :
            /\ conversation' = r.state
            /\ turn' = [engine |-> "inbound", message |-> m, ai |-> ai,
                        clinicConfig |-> config,
                        pre |-> conversation, error |-> r.error, arg |-> r.arg,
                        decision |-> r.decision, alternatives |-> r.alternatives,
                        doctor |-> r.doctor,
                        decisions |-> PastDecisions \cup {r.decision}]
  /\ UNCHANGED <<config, outboundConversation>>

\* sendMessage of the simulation panel: nothing is sent once isComplete
sendMessage(msgs, gens, identities, intents, maxTurns) ==
  /\ ~conversation.isComplete
  /\ InboundTurn(msgs, gens, identities, intents, maxTurns)

\* a message posted to the route for a conversation that is already complete
\* (the route and the engine accept it)
postToCompleted(msgs, gens, identities, intents, maxTurns) ==
  /\ conversation.isComplete
  /\ InboundTurn(msgs, gens, identities, intents, maxTurns)

\* updateConfig of the onboarding wizard: the configuration the panel sends
\* with the next request is replaced
updateConfig(configs) ==
  /\ \E c \in configs : c # config /\ config' = c
  /\ UNCHANGED <<conversation, outboundConversation, turn>>

\* POST /outbound/start (startOutboundCall of the panel)
startOutboundCall(gens) ==
  /\ outboundConversation = NoConversation
  /\ \E gen \in gens :
       /\ outboundConversation' = IF gen = REJECT THEN outboundConversation
                                  ELSE initOutboundConversation(config, gen)
       /\ turn' = [engine |-> "outbound_start", gen |-> gen,
                   error |-> IF gen = REJECT THEN "collaborator call rejected" ELSE null]
  /\ UNCHANGED <<config, conversation>>

\* the replies an outbound turn consumes in the state it is in
RepliesIn(cs, state, replies) == IF cs.currentState = state THEN replies ELSE {NoReply}

\* POST /outbound/message: one engine turn
OutboundTurn(msgs, gens, identities, sideEffects, adherences, reasons, maxTurns) ==
  /\ outboundConversation # NoConversation
  /\ Len(outboundConversation.transcript) < 2 * maxTurns
  /\ \E m \in msgs :
       \E ai \in AiInputs(IF outboundConversation.currentState = OUTBOUND_STATES.COMPLETE
                            THEN {GenNone} ELSE gens,
                          RepliesIn(outboundConversation, OUTBOUND_STATES.VERIFY_IDENTITY, identities),
                          {NoReply},
                          RepliesIn(outboundConversation, OUTBOUND_STATES.CHECK_SIDE_EFFECTS, sideEffects),
                          RepliesIn(outboundConversation, OUTBOUND_STATES.CHECK_ADHERENCE, adherences),
                          RepliesIn(outboundConversation, OUTBOUND_STATES.PROBE_REASON, reasons)) :
         \E r \in {processOutboundMessage(outboundConversation, m, config, ai)} :
            /\ outboundConversation' = r.state
            /\ turn' = [engine |-> "outbound", message |-> m, ai |-> ai,
                        pre |-> outboundConversation, error |-> r.error, arg |-> r.arg,
                        decision |-> r.decision, alternatives |-> r.alternatives,
                        doctor |-> r.doctor,
                        decisions |-> {}]
  /\ UNCHANGED <<config, conversation>>

\* sendOutboundMessage of the simulation panel: nothing is sent once isComplete
sendOutboundMessage(msgs, gens, identities, sideEffects, adherences, reasons, maxTurns) ==
  /\ ~outboundConversation.isComplete
  /\ OutboundTurn(msgs, gens, identities, sideEffects, adherences, reasons, maxTurns)

\* a message posted to the route for a follow-up that is already complete
postToCompletedOutbound(msgs, gens, identities, sideEffects, adherences, reasons, maxTurns) ==
  /\ outboundConversation.isComplete
  /\ OutboundTurn(msgs, gens, identities, sideEffects, adherences, reasons, maxTurns)

(***************************************************************************)
(* Specifications                                                          *)
(***************************************************************************)
CallContexts == {CallMondayMorning, CallMondayNight}

\* inbound calls with emergency and transfer phrases
SafetyMessages ==
  {MsgHello, MsgBook, MsgChestPain, MsgSnakeBite, MsgRealPerson, MsgEmergencyDoctor}

\* the replies of the identity collaborator: a full identity, or none
IdentityReplies == {IdentityFull, NoReply}

SafetyGens == {GenAsk, GenNone}

SafetyNext ==
  \/ startInboundCall(CallContexts, {GenNone})
  \/ sendMessage(SafetyMessages, SafetyGens, IdentityReplies, {IntentOther}, MaxTurns)
  \/ postToCompleted(SafetyMessages, SafetyGens, IdentityReplies, {IntentOther},
                     MaxTurns)

SpecSafety == Init /\ [][SafetyNext]_vars

\* inbound calls under every behaviour of the generation collaborator
GenerationMessages == {MsgHello, MsgBook, MsgRatherNot, MsgNoThanks}

\* what the generation collaborator returns for the greeting and for a turn:
\* a text, nothing, or a rejection
GreetingGens == {GenNone, GenAsk, GenClosed, GenAfterHours, REJECT}

GenerationGens == {GenAsk, GenClosed, GenNone, REJECT}

GenerationNext ==
  \/ startInboundCall(CallContexts, GreetingGens)
  \/ sendMessage(GenerationMessages, GenerationGens, IdentityReplies, {IntentOther},
                 MaxTurns)

SpecGeneration == Init /\ [][GenerationNext]_vars

\* inbound calls that book an appointment
BookingMessages ==
  {MsgBook, MsgDrPatel, MsgPatel, MsgDrWong, MsgSlot, MsgNoThanks}

\* the replies of the appointment-intent collaborator
BookingIntents == {IntentConfirming, IntentAccepting, IntentOther}

BookingNext ==
  \/ startInboundCall(CallContexts, {GenNone})
  \/ sendMessage(BookingMessages, {GenAsk}, {IdentityFull}, BookingIntents,
                 MaxBookingTurns)

SpecBooking == Init /\ [][BookingNext]_vars

\* inbound calls with unrecognized inputs
ConfusionMessages == {MsgHello, MsgBook}

ConfusionNext ==
  \/ startInboundCall(CallContexts, {GenNone})
  \/ sendMessage(ConfusionMessages, {GenAsk}, IdentityReplies, {IntentOther},
                 MaxConfusionTurns)

SpecConfusion == Init /\ [][ConfusionNext]_vars

\* inbound calls started at every modelled day and time
HoursNext ==
  \/ startInboundCall(HoursContexts, {GenNone})
  \/ sendMessage(ConfusionMessages, {GenAsk}, IdentityReplies, {IntentOther}, MaxTurns)

SpecHours == Init /\ [][HoursNext]_vars

\* the replies of the classification collaborator in a follow-up call
SideEffectReplies ==
  {[ok |-> TRUE, hasSideEffects |-> h, severeSideEffects |-> s] : h, s \in BOOLEAN}
    \cup {NoReply}

AdherenceReplies ==
  {[ok |-> TRUE, goodAdherence |-> g, poorAdherence |-> b] :
     <<g, b>> \in {<<TRUE, FALSE>>, <<FALSE, TRUE>>, <<FALSE, FALSE>>}}
    \cup {NoReply}

\* the reason classifier's replies: a category outside the list, a listed
\* category, an empty value, and a failure or malformed output
ReasonReplies ==
  {[ok |-> TRUE, reason |-> "forgot", details |-> "busy week"],
   [ok |-> TRUE, reason |-> "forgetting", details |-> ""],
   [ok |-> TRUE, reason |-> "", details |-> ""],
   NoReply}

FollowupMessages == {MsgDizzy, MsgMissed, MsgNothingElse}

FollowupNext ==
  \/ startOutboundCall({GenNone})
  \/ sendOutboundMessage(FollowupMessages, {GenNone}, IdentityReplies,
                         SideEffectReplies, AdherenceReplies, ReasonReplies,
                         MaxFollowupTurns)
  \/ postToCompletedOutbound(FollowupMessages, {GenNone}, {NoReply}, {NoReply},
                             {NoReply}, {NoReply}, MaxFollowupTurns)

SpecFollowup == Init /\ [][FollowupNext]_vars

\* inbound calls that state each kind of request
RoutingMessages == {MsgHello, MsgBook, MsgRash, MsgResults, MsgRealPerson}

RoutingNext ==
  \/ startInboundCall(CallContexts, {GenNone})
  \/ sendMessage(RoutingMessages, {GenAsk}, IdentityReplies, {IntentOther}, MaxTurns)

SpecRouting == Init /\ [][RoutingNext]_vars

\* inbound calls during which the clinic's schedule is edited
FrozenConfigs == {ConfigDefault, ConfigMondayOff}

FrozenMessages == {MsgHello, MsgBook, MsgRealPerson, MsgRash}

FrozenNext ==
  \/ startInboundCall(CallContexts, {GenNone})
  \/ updateConfig(FrozenConfigs)
  \/ sendMessage(FrozenMessages, {GenAsk}, IdentityReplies, {IntentOther}, MaxTurns)

SpecFrozen == Init /\ [][FrozenNext]_vars

\* an inbound call and a follow-up call side by side, with turns that fail
EngineMessages == {MsgHello, MsgChestPain, MsgRealPerson}

EngineGens == {GenAsk, REJECT}

EngineSideEffectReplies ==
  {[ok |-> TRUE, hasSideEffects |-> TRUE, severeSideEffects |-> TRUE],
   [ok |-> TRUE, hasSideEffects |-> TRUE, severeSideEffects |-> FALSE],
   NoReply}

EngineAdherenceReplies ==
  {[ok |-> TRUE, goodAdherence |-> FALSE, poorAdherence |-> TRUE], NoReply}

EnginesNext ==
  \/ startInboundCall(CallContexts, {GenNone})
  \/ sendMessage(EngineMessages, EngineGens, {NoReply}, {NoReply}, MaxEngineTurns)
  \/ postToCompleted(EngineMessages, {GenNone}, {NoReply}, {NoReply}, MaxEngineTurns)
  \/ startOutboundCall({GenNone})
  \/ sendOutboundMessage({MsgDizzy}, {GenNone}, {IdentityFull},
                         EngineSideEffectReplies, EngineAdherenceReplies,
                         {NoReply}, MaxFollowupTurns)
  \/ postToCompletedOutbound({MsgDizzy}, {GenNone}, {NoReply}, {NoReply},
                             {NoReply}, {NoReply}, MaxFollowupTurns)

SpecEngines == Init /\ [][EnginesNext]_vars

(***************************************************************************)
(* Properties                                                              *)
(***************************************************************************)
\* the last step was an inbound engine turn / one that returned a state
InboundCall == turn.engine = "inbound"

InboundReturned == InboundCall /\ turn.error = null

OutboundCall == turn.engine = "outbound"

OutboundReturned == OutboundCall /\ turn.error = null

TerminalStates ==
  {INBOUND_STATES.EMERGENCY_EXIT, INBOUND_STATES.SUCCESS_EXIT,
   INBOUND_STATES.CONFUSION_EXIT}

\* C1: whatever state the conversation was in (flow state, terminal state,
\* already complete), an inbound turn whose message contains a built-in
\* emergency phrase or a configured emergency keyword, in any letter case,
\* returns EMERGENCY_EXIT with isComplete, finalOutcome emergency_redirect
\* and the flag EMERGENCY_DETECTED.
C1_EmergencyAlwaysExits ==
  (InboundReturned /\ detectEmergency(turn.message, config))
    => /\ conversation.currentState = INBOUND_STATES.EMERGENCY_EXIT
       /\ conversation.isComplete
       /\ conversation.finalOutcome = "emergency_redirect"
       /\ Contains(conversation.flags, "EMERGENCY_DETECTED")

\* a configured keyword written in another letter case ("Snake Bite") sent to
\* a conversation that was already complete
C1_Witness ==
  /\ InboundReturned
  /\ turn.message = MsgSnakeBite
  /\ detectEmergency(turn.message, config)
  /\ turn.pre.isComplete
  /\ conversation.currentState = INBOUND_STATES.EMERGENCY_EXIT

\* C2: from every non-terminal inbound state, a message that triggers the
\* transfer detection and not the emergency detection returns TRANSFER_FLOW
\* with isComplete and the flag TRANSFER_REQUESTED, and the outcome is
\* live_transfer in business hours and message_for_callback after hours.
C2_TransferByBusinessHours ==
  (/\ InboundReturned
   /\ turn.pre.currentState \notin TerminalStates
   /\ detectTransferRequest(turn.message, config)
   /\ ~detectEmergency(turn.message, config))
    => /\ conversation.currentState = INBOUND_STATES.TRANSFER_FLOW
       /\ conversation.isComplete
       /\ Contains(conversation.flags, "TRANSFER_REQUESTED")
       /\ conversation.finalOutcome =
            IF turn.pre.isBusinessHours THEN "live_transfer"
            ELSE "message_for_callback"

\* a transfer requested after hours in the middle of the identification
C2_Witness ==
  /\ InboundReturned
  /\ turn.pre.currentState = INBOUND_STATES.IDENTIFY
  /\ ~turn.pre.isBusinessHours
  /\ detectTransferRequest(turn.message, config)
  /\ conversation.finalOutcome = "message_for_callback"

\* C3: a message that matches an emergency phrase and a transfer trigger at
\* once produces the emergency exit in every state: the turn adds exactly
\* the flag EMERGENCY_DETECTED and never goes to TRANSFER_FLOW.
C3_EmergencyBeforeTransfer ==
  (/\ InboundReturned
   /\ detectEmergency(turn.message, config)
   /\ detectTransferRequest(turn.message, config))
    => /\ conversation.currentState = INBOUND_STATES.EMERGENCY_EXIT
       /\ conversation.flags = Append(turn.pre.flags, "EMERGENCY_DETECTED")
       /\ conversation.finalOutcome = "emergency_redirect"

\* "It's an emergency, let me speak to a doctor" sent in the first turn
C3_Witness ==
  /\ InboundReturned
  /\ turn.message = MsgEmergencyDoctor
  /\ detectTransferRequest(turn.message, config)
  /\ turn.pre.currentState = INBOUND_STATES.GREETING
  /\ conversation.currentState = INBOUND_STATES.EMERGENCY_EXIT

\* the fields of a state that a completed conversation must keep
SameConversation(before, after) ==
  /\ after.currentState = before.currentState
  /\ after.flags = before.flags
  /\ after.isComplete = before.isComplete
  /\ after.finalOutcome = before.finalOutcome
  /\ after.transcript = before.transcript

\* C4: in both engines a message sent to a conversation whose isComplete is
\* already true is rejected with an error or leaves currentState, flags,
\* isComplete, finalOutcome and transcript as they were.
C4_CompletedIsImmutable ==
  /\ (InboundCall /\ turn.pre.isComplete)
       => (turn.error # null \/ SameConversation(turn.pre, conversation))
  /\ (OutboundCall /\ turn.pre.isComplete)
       => (turn.error # null \/ SameConversation(turn.pre, outboundConversation))

\* some patient message of the transcript names a directory doctor whose
\* bookings need manual approval
NamesApprovalDoctor(transcript) ==
  \E i \in 1..Len(transcript) :
     /\ transcript[i].role = "user"
     /\ Memo_extractDoctorName[config][transcript[i].content] # null
     /\ \E k \in 1..Len(config.staff_directory) :
          /\ k = FindStaff(config.staff_directory,
                           Memo_extractDoctorName[config][transcript[i].content])
          /\ RequiresApproval(config.staff_directory[k].booking_rules)

\* C5: over every sequence of inbound turns the flag appointment_booked and
\* the outcome appointment_booked never appear after hours, nor when the
\* patient asked for a doctor whose bookings require manual approval.
C5_NoBookingAfterHoursOrWithoutApproval ==
  (conversation # NoConversation
   /\ (~conversation.isBusinessHours \/ NamesApprovalDoctor(conversation.transcript)))
    => /\ ~Contains(conversation.flags, "appointment_booked")
       /\ conversation.finalOutcome # "appointment_booked"

\* C6: the conversation enters CONFUSION_EXIT only on the third of three
\* consecutive unrecognized inputs: the turn before the one that enters it
\* was itself an unrecognized input of IDENTIFY or TRIAGE, one that raised
\* the confusion count.
C6_ConfusionExitOnThirdConsecutive ==
  [][(/\ conversation.currentState # INBOUND_STATES.CONFUSION_EXIT
      /\ conversation'.currentState = INBOUND_STATES.CONFUSION_EXIT)
       => /\ InboundReturned
          /\ turn.pre.currentState \in {INBOUND_STATES.IDENTIFY, INBOUND_STATES.TRIAGE}
          /\ conversation.confusionCount = turn.pre.confusionCount + 1]_vars

\* C7: at CHECK_SIDE_EFFECTS an analysis that marks the side effects as
\* severe, whatever hasSideEffects says, leads to ESCALATED with
\* escalatedToDoctor and the flag "URGENT: severe_side_effects"; the next
\* message moves ESCALATED to COMPLETE with isComplete and the outcome
\* escalated_to_clinician; a follow-up carrying the flag is never in
\* CHECK_ADHERENCE, PROBE_REASON or CLOSING.
C7_SevereEscalates ==
  /\ (/\ OutboundReturned
      /\ turn.pre.currentState = OUTBOUND_STATES.CHECK_SIDE_EFFECTS
      /\ turn.ai.sideEffects.ok
      /\ turn.ai.sideEffects.severeSideEffects)
       => /\ outboundConversation.currentState = OUTBOUND_STATES.ESCALATED
          /\ outboundConversation.escalatedToDoctor
          /\ Contains(outboundConversation.flags, "URGENT: severe_side_effects")
  /\ (OutboundReturned /\ turn.pre.currentState = OUTBOUND_STATES.ESCALATED)
       => /\ outboundConversation.currentState = OUTBOUND_STATES.COMPLETE
          /\ outboundConversation.isComplete
          /\ outboundConversation.finalOutcome = "escalated_to_clinician"
  /\ (/\ outboundConversation # NoConversation
      /\ Contains(outboundConversation.flags, "URGENT: severe_side_effects"))
       => outboundConversation.currentState
            \in {OUTBOUND_STATES.ESCALATED, OUTBOUND_STATES.COMPLETE}

\* a report analysed as severe without hasSideEffects, followed to COMPLETE
C7_Witness ==
  /\ OutboundReturned
  /\ turn.pre.currentState = OUTBOUND_STATES.ESCALATED
  /\ Contains(outboundConversation.flags, "URGENT: severe_side_effects")
  /\ ~Contains(outboundConversation.flags, "side_effects_reported")
  /\ outboundConversation.finalOutcome = "escalated_to_clinician"

\* the message reports poor adherence in so many words
ReportsPoorAdherence(message) ==
  \/ includes(toLowerCase(message), "missed")
  \/ includes(toLowerCase(message), "forgot")
  \/ includes(toLowerCase(message), "skipped")

\* C8: at CHECK_ADHERENCE a message containing "missed", "forgot" or
\* "skipped" always leads to PROBE_REASON with the flag adherence_issue,
\* whatever the classification collaborator answers and also when it fails.
C8_PoorAdherenceProbes ==
  (/\ OutboundCall
   /\ turn.pre.currentState = OUTBOUND_STATES.CHECK_ADHERENCE
   /\ ReportsPoorAdherence(turn.message))
    => /\ turn.error = null
       /\ outboundConversation.currentState = OUTBOUND_STATES.PROBE_REASON
       /\ Contains(outboundConversation.flags, "adherence_issue")

\* the message holds one of the severe keywords
HasSevereKeyword(message) ==
  \/ \E k \in {"very", "severe", "faint", "chest", "breathing"} :
        includes(toLowerCase(message), k)
  \/ /\ includes(toLowerCase(message), "dizzy")
     /\ includes(toLowerCase(message), "nauseous")

\* C9: when the side-effect classification fails or returns nothing
\* parsable, the CHECK_SIDE_EFFECTS turn still returns, in ESCALATED when
\* the message holds a severe keyword and in CHECK_ADHERENCE otherwise.
C9_SideEffectFallback ==
  (/\ OutboundCall
   /\ turn.pre.currentState = OUTBOUND_STATES.CHECK_SIDE_EFFECTS
   /\ ~turn.ai.sideEffects.ok)
    => /\ turn.error = null
       /\ outboundConversation.currentState =
            IF HasSevereKeyword(turn.message) THEN OUTBOUND_STATES.ESCALATED
            ELSE OUTBOUND_STATES.CHECK_ADHERENCE

\* C10: for every state, message and behaviour of the generation
\* collaborator (valid text, rejected text, empty text, failure) the inbound
\* turn returns a state with a non-empty utterance; it never throws.
C10_InboundTurnNeverFails ==
  InboundCall
    => /\ turn.error = null
       /\ Truthy(conversation.aiResponse)
       /\ conversation.currentState \in {INBOUND_STATES[k] : k \in DOMAIN INBOUND_STATES}

\* finalOutcome is null exactly while isComplete is false
OutcomeMatchesCompletion(cs) ==
  cs # NoConversation => (cs.isComplete <=> cs.finalOutcome # null)

\* C11: in every state either engine returns, finalOutcome is null while
\* isComplete is false and non-null once it is true, and once set its value
\* is the same after every later turn of the conversation.
C11_FinalOutcomeSetOnce ==
  /\ OutcomeMatchesCompletion(conversation)
  /\ OutcomeMatchesCompletion(outboundConversation)
  /\ (InboundReturned /\ turn.pre.isComplete)
       => conversation.finalOutcome = turn.pre.finalOutcome
  /\ (OutboundReturned /\ turn.pre.isComplete)
       => outboundConversation.finalOutcome = turn.pre.finalOutcome

\* C12: the utterance of an emergency turn is the fixed safety script,
\* whatever text the generation collaborator returns.
C12_EmergencyScriptIsFixed ==
  (InboundReturned /\ detectEmergency(turn.message, config))
    => conversation.aiResponse = EmergencyScript

\* the text speaks of the clinic being closed / of after hours
SaysClosed(text) == includes(toLowerCase(text), "closed")

SaysAfterHours(text) == includes(toLowerCase(text), "after hours")

\* the opening utterance of the call
Greeting == conversation.transcript[1].content

C14_UtterancesAreValidated ==
  (conversation # NoConversation /\ conversation.isBusinessHours)
    => \A i \in 1..Len(conversation.transcript) :
          conversation.transcript[i].role = "assistant"
            => /\ ~SaysClosed(conversation.transcript[i].content)
               /\ ~SaysAfterHours(conversation.transcript[i].content)

\* the conversation state with the wording of every recorded assistant
\* utterance replaced by w
Reworded(cs, w) ==
  [cs EXCEPT !.transcript =
     [i \in 1..Len(cs.transcript) |->
        IF cs.transcript[i].role = "assistant"
          THEN [cs.transcript[i] EXCEPT !.content = w]
          ELSE cs.transcript[i]]]

\* the other run ends as the last turn did
SameVerdict(other) ==
  /\ (other.error = null) <=> (turn.error = null)
  /\ (other.error = null /\ turn.error = null)
       => /\ other.state.currentState = conversation.currentState
          /\ other.state.flags = conversation.flags
          /\ other.state.isComplete = conversation.isComplete
          /\ other.state.finalOutcome = conversation.finalOutcome

Wordings == {GenAsk, GenPatelSlots}

\* C15: an inbound turn run again from the same state with the same message
\* and the same classification and identity results, but with other
\* generated wording (in this turn and recorded in the transcript), ends
\* with the same currentState, flags, isComplete and finalOutcome, and
\* succeeds or fails alike.
C15_WordingNeverDecides ==
  InboundCall
    => \A w \in Wordings :
          SameVerdict(processInboundMessage(Reworded(turn.pre, w), turn.message,
                                            config, [turn.ai EXCEPT !.gen = w]))

\* the message holds a phrase of the built-in transfer set / a keyword the
\* clinic configured
BuiltInTransferPhrase(message) ==
  \/ some(doctorPatterns, LAMBDA pattern : includes(toLowerCase(message), pattern))
  \/ some(INTENT_TRANSFER, LAMBDA keyword : includes(toLowerCase(message), keyword))

ConfiguredTransferKeyword(message, c) ==
  some(c.escalation_keywords,
       LAMBDA keyword : includes(toLowerCase(message), toLowerCase(keyword)))

\* C16: the transfer detection uses the union of the built-in phrases and
\* the configured escalation keywords: a message with a built-in phrase
\* triggers the transfer whether or not the clinic configured keywords, and
\* a message with a configured keyword triggers it too.
C16_TransferTriggersAreUnion ==
  (/\ InboundReturned
   /\ turn.pre.currentState \notin TerminalStates
   /\ ~detectEmergency(turn.message, config)
   /\ \/ BuiltInTransferPhrase(turn.message)
      \/ ConfiguredTransferKeyword(turn.message, config))
    => /\ conversation.currentState = INBOUND_STATES.TRANSFER_FLOW
       /\ Contains(conversation.flags, "TRANSFER_REQUESTED")

\* the directory entry the message names, 0 when it names none
NamedDoctor(message) ==
  IF Memo_extractDoctorName[config][message] = null THEN 0
  ELSE FindStaff(config.staff_directory, Memo_extractDoctorName[config][message])

\* the names of the directory entries whose accepts_new_patients is true
AcceptingDoctors ==
  {config.staff_directory[k].name :
     k \in {j \in 1..Len(config.staff_directory) :
              AcceptsTruthy(config.staff_directory[j].booking_rules)}}

\* C17: whenever the patient names, in an appointment turn, a doctor who
\* does not accept new patients, the decision is a refusal, and the
\* alternatives it offers are exactly the directory entries whose
\* accepts_new_patients is true.
C17_RefusalOffersAcceptingDoctors ==
  /\ (/\ InboundCall
      /\ turn.pre.currentState = INBOUND_STATES.APPOINTMENT_FLOW
      /\ SafeStart(turn.message, config) = "none"
      /\ ~Memo_isDone[turn.message]
      /\ NamedDoctor(turn.message) # 0
      /\ ~AcceptsTruthy(config.staff_directory[NamedDoctor(turn.message)].booking_rules))
       => turn.decision = "refuse_not_accepting"
  /\ (InboundCall /\ turn.decision = "refuse_not_accepting")
       => turn.alternatives = AcceptingDoctors

\* C18: after hours no appointment turn, first or continued, takes the
\* decision to offer time slots or to confirm a booking, and no booking is
\* recorded: the request is noted for a call back.
C18_NoSlotsAfterHours ==
  (InboundCall /\ ~turn.pre.isBusinessHours)
    => /\ turn.decision \notin {"offer_slots", "confirm_booking"}
       /\ ~Contains(conversation.flags, "appointment_booked")

\* C19: the flag appointment_booked is added only in a turn in which the
\* patient selects a time slot, and only when an earlier turn of the call
\* took the decision to offer time slots.
C19_BookingFollowsSlotOffer ==
  (/\ InboundReturned
   /\ ~Contains(turn.pre.flags, "appointment_booked")
   /\ Contains(conversation.flags, "appointment_booked"))
    => /\ turn.ai.apptIntent.ok
       /\ turn.ai.apptIntent.intent = "confirming_time"
       /\ "offer_slots" \in turn.decisions

\* C20: after an escalation for severe side effects the followupDate of the
\* returned state is an urgency string, no longer the follow-up date
\* computed at the start of the call.
C20_EscalationOverridesFollowupDate ==
  (/\ OutboundReturned
   /\ turn.pre.currentState = OUTBOUND_STATES.CHECK_SIDE_EFFECTS
   /\ outboundConversation.currentState = OUTBOUND_STATES.ESCALATED)
    => outboundConversation.followupDate # turn.pre.followupDate

\* minutes since midnight of a clock time written HH:MM, read digit by digit
ClockMinutes(hhmm) ==
  (10 * DigitValue(CharAt(hhmm, 1)) + DigitValue(CharAt(hhmm, 2))) * 60
    + 10 * DigitValue(CharAt(hhmm, 4)) + DigitValue(CharAt(hhmm, 5))

\* the schedule entry of a day is open and its window holds the time, start
\* included and end excluded
InWindow(schedule, day, time) ==
  /\ day \in DOMAIN schedule
  /\ schedule[day].is_open = TRUE
  /\ ClockMinutes(schedule[day].start) <= ClockMinutes(time)
  /\ ClockMinutes(time) < ClockMinutes(schedule[day].end)

\* C21: isBusinessHours computed at call start is true exactly when the
\* schedule entry of the day exists, is open, and start <= time < end in
\* minutes; with Monday 08:00-18:00 open it is true at 08:00 and 10:00, false
\* at 18:00 and 20:00, and false on a closed or missing day.
C21_BusinessHoursWindow ==
  (turn.engine = "inbound_start" /\ turn.error = null)
    => LET day == toLowerCase(turn.callContext.day)
           time == turn.callContext.time
       IN /\ conversation.isBusinessHours = InWindow(config.schedule, day, time)
          /\ (day = "monday" /\ time \in {"08:00", "10:00", "17:59"})
                => conversation.isBusinessHours
          /\ (day = "monday" /\ time \in {"07:59", "18:00", "20:00"})
                => ~conversation.isBusinessHours
          /\ day \in {"saturday", "sunday"} => ~conversation.isBusinessHours

\* a call started on Monday at 18:00 sharp, the excluded end of the window
C21_Witness ==
  /\ turn.engine = "inbound_start"
  /\ turn.callContext = [day |-> "monday", time |-> "18:00"]
  /\ ~conversation.isBusinessHours

\* the inbound turn that has just returned was handled by the case of its
\* state: neither the emergency nor the transfer override fired
HandledByCase == InboundReturned /\ SafeStart(turn.message, turn.clinicConfig) = "none"

\* C22: apart from the emergency/transfer override, every change of the
\* inbound currentState made by processInboundMessage is an edge of
\* STATE_TRANSITIONS.
C22_TransitionsFollowTable ==
  (HandledByCase /\ conversation.currentState # turn.pre.currentState)
    => /\ turn.pre.currentState \in DOMAIN STATE_TRANSITIONS
       /\ conversation.currentState \in STATE_TRANSITIONS[turn.pre.currentState]

\* the edges of the follow-up call
OutboundEdges ==
  {<<OUTBOUND_STATES.OPENING, OUTBOUND_STATES.VERIFY_IDENTITY>>,
   <<OUTBOUND_STATES.VERIFY_IDENTITY, OUTBOUND_STATES.CHECK_SIDE_EFFECTS>>,
   <<OUTBOUND_STATES.CHECK_SIDE_EFFECTS, OUTBOUND_STATES.CHECK_ADHERENCE>>,
   <<OUTBOUND_STATES.CHECK_SIDE_EFFECTS, OUTBOUND_STATES.ESCALATED>>,
   <<OUTBOUND_STATES.CHECK_ADHERENCE, OUTBOUND_STATES.PROBE_REASON>>,
   <<OUTBOUND_STATES.CHECK_ADHERENCE, OUTBOUND_STATES.CLOSING>>,
   <<OUTBOUND_STATES.PROBE_REASON, OUTBOUND_STATES.CLOSING>>,
   <<OUTBOUND_STATES.CLOSING, OUTBOUND_STATES.COMPLETE>>,
   <<OUTBOUND_STATES.ESCALATED, OUTBOUND_STATES.COMPLETE>>}

\* C23: every outbound turn that returns moves currentState along one of the
\* edges OPENING -> VERIFY_IDENTITY -> CHECK_SIDE_EFFECTS -> CHECK_ADHERENCE or
\* ESCALATED, CHECK_ADHERENCE -> PROBE_REASON or CLOSING, PROBE_REASON ->
\* CLOSING, CLOSING -> COMPLETE, ESCALATED -> COMPLETE; only a turn on a
\* conversation already in COMPLETE leaves the state where it is, so no state
\* is skipped or revisited.
C23_OutboundEdges ==
  OutboundReturned
    => \/ <<turn.pre.currentState, outboundConversation.currentState>> \in OutboundEdges
       \/ /\ turn.pre.currentState = OUTBOUND_STATES.COMPLETE
          /\ outboundConversation.currentState = OUTBOUND_STATES.COMPLETE

\* a turn in PROBE_REASON has returned and the call is in CLOSING
C23_Witness ==
  /\ OutboundReturned
  /\ turn.pre.currentState = OUTBOUND_STATES.PROBE_REASON
  /\ outboundConversation.currentState = OUTBOUND_STATES.CLOSING

\* before is a prefix of after
IsPrefix(before, after) ==
  /\ Len(before) <= Len(after)
  /\ SubSeq(after, 1, Len(before)) = before

\* the turn appended the patient message, tagged with the state before the
\* turn, and then the assistant utterance, tagged with the state after it
AppendedTurn(before, after) ==
  LET n == Len(before.transcript)
  IN /\ Len(after.transcript) = n + 2
     /\ IsPrefix(before.transcript, after.transcript)
     /\ after.transcript[n + 1] =
          [role |-> "user", content |-> turn.message, state |-> before.currentState]
     /\ after.transcript[n + 2] =
          [role |-> "assistant", content |-> after.aiResponse,
           state |-> after.currentState]

\* C24: the transcript is append-only in both engines: a turn that returns
\* leaves the transcript before it as a prefix and appends exactly the user
\* message tagged with the state before the turn and the assistant utterance
\* tagged with the state after it; a turn that fails leaves the transcript of
\* the conversation as it was.
C24_TranscriptAppendOnly ==
  /\ InboundReturned => AppendedTurn(turn.pre, conversation)
  /\ OutboundReturned => AppendedTurn(turn.pre, outboundConversation)
  /\ (InboundCall /\ turn.error # null) => conversation.transcript = turn.pre.transcript
  /\ (OutboundCall /\ turn.error # null)
        => outboundConversation.transcript = turn.pre.transcript

\* a follow-up turn has returned next to an inbound call whose emergency
\* override has added its two entries
C24_Witness ==
  /\ OutboundReturned
  /\ Len(outboundConversation.transcript) >= 5
  /\ conversation # NoConversation
  /\ conversation.currentState = INBOUND_STATES.EMERGENCY_EXIT
  /\ Len(conversation.transcript) >= 3

\* C25: the flags are append-only in both engines: after every turn that
\* returns, in every state and on every branch (the emergency and transfer
\* overrides included), the flags before the turn are a prefix of the flags
\* after it; a turn that fails leaves the flags of the conversation as they
\* were.
C25_FlagsAppendOnly ==
  /\ InboundReturned => IsPrefix(turn.pre.flags, conversation.flags)
  /\ OutboundReturned => IsPrefix(turn.pre.flags, outboundConversation.flags)
  /\ (InboundCall /\ turn.error # null) => conversation.flags = turn.pre.flags
  /\ (OutboundCall /\ turn.error # null) => outboundConversation.flags = turn.pre.flags

\* the transfer override has fired on a conversation that already carried a
\* flag, next to a follow-up call that carries flags of its own
C25_Witness ==
  /\ InboundReturned
  /\ SafeStart(turn.message, config) = "transfer"
  /\ Len(turn.pre.flags) >= 1
  /\ Len(conversation.flags) = Len(turn.pre.flags) + 1
  /\ outboundConversation # NoConversation
  /\ Len(outboundConversation.flags) >= 1

\* the result of the last inbound turn had the request carried configuration c
TurnUnder(c) == processInboundMessage(turn.pre, turn.message, c, turn.ai)

\* C26: isBusinessHours is frozen at call start: no inbound turn changes it,
\* whatever configuration is sent with the message, and the turn reads only
\* the stored value: the same turn under a configuration with another
\* schedule returns the same state, takes the same decision and fails the
\* same way.
C26_BusinessHoursFrozen ==
  InboundCall
    => /\ conversation.isBusinessHours = turn.pre.isBusinessHours
       /\ \A schedule \in {WeekSchedule, ClosedSchedule} :
            LET c == [turn.clinicConfig EXCEPT !.schedule = schedule]
            IN c \in KnownConfigs
                 => /\ TurnUnder(c).state = conversation
                    /\ TurnUnder(c).error = turn.error
                    /\ TurnUnder(c).decision = turn.decision

\* a call that started in business hours has had a turn whose request carried
\* a schedule that is closed all week
C26_Witness ==
  /\ InboundReturned
  /\ turn.clinicConfig = ConfigMondayOff
  /\ turn.pre.isBusinessHours
  /\ conversation.isBusinessHours
  /\ Len(conversation.transcript) >= 5

\* C27: processInboundMessage and processOutboundMessage leave the
\* ConversationState passed in unchanged: after the call, also one that
\* failed, the transcript and the flags of the argument are what they were
\* before it.
C27_ArgumentUnchanged ==
  (InboundCall \/ OutboundCall)
    => /\ turn.arg.transcript = turn.pre.transcript
       /\ turn.arg.flags = turn.pre.flags

\* the last inbound turn was handled in IDENTIFY or TRIAGE and its message was
\* unrecognized: no complete identity, no recognized intent, no refusal
UnrecognizedTurn ==
  /\ HandledByCase
  /\ turn.pre.currentState \in {INBOUND_STATES.IDENTIFY, INBOUND_STATES.TRIAGE}
  /\ ~(Truthy(extractIdentity(turn.ai.identity).name)
         /\ Truthy(extractIdentity(turn.ai.identity).dob))
  /\ Memo_classifyIntent[turn.message] = "unclear"
  /\ ~Memo_isRefusal[turn.message]

\* C28: confusionCount grows by exactly 1 in a turn handled in IDENTIFY or
\* TRIAGE whose message is unrecognized, and every other turn, an IDENTIFY
\* turn whose message states a recognized intent included, leaves it
\* unchanged.
C28_ConfusionCountFrame ==
  InboundReturned
    => conversation.confusionCount =
         turn.pre.confusionCount + (IF UnrecognizedTurn THEN 1 ELSE 0)

\* the last inbound turn was handled in IDENTIFY and both the name and the
\* date of birth were extracted
IdentifiedTurn ==
  /\ HandledByCase
  /\ turn.pre.currentState = INBOUND_STATES.IDENTIFY
  /\ Truthy(extractIdentity(turn.ai.identity).name)
  /\ Truthy(extractIdentity(turn.ai.identity).dob)

\* the flow of a captured intent; TRIAGE when none was captured
FlowOf(intent) ==
  CASE intent = "appointment" -> INBOUND_STATES.APPOINTMENT_FLOW
    [] intent = "clinical" -> INBOUND_STATES.CLINICAL_FLOW
    [] intent = "admin" -> INBOUND_STATES.MESSAGE_FLOW
    [] intent = "transfer" -> INBOUND_STATES.TRANSFER_FLOW
    [] OTHER -> INBOUND_STATES.TRIAGE

\* C29: in IDENTIFY, when both name and date of birth are extracted, the
\* patient is marked identified and the next state is the flow of the intent
\* captured earlier (appointment to APPOINTMENT_FLOW, clinical to
\* CLINICAL_FLOW, admin to MESSAGE_FLOW, transfer to TRANSFER_FLOW), or TRIAGE
\* when no intent was captured.
C29_IdentifiedGoesToFlow ==
  IdentifiedTurn
    => /\ conversation.patientIdentified
       /\ conversation.currentState = FlowOf(turn.pre.intent)

\* the same for every captured intent but the clinical one
C29_OtherIntents ==
  (IdentifiedTurn /\ turn.pre.intent # "clinical")
    => /\ conversation.patientIdentified
       /\ conversation.currentState = FlowOf(turn.pre.intent)

\* the same for the intents that do hold in the code: appointment, admin, none
C29_HoldingIntents ==
  (IdentifiedTurn /\ turn.pre.intent \notin {"clinical", "transfer"})
    => /\ conversation.patientIdentified
       /\ conversation.currentState = FlowOf(turn.pre.intent)

\* the last inbound turn handled a clinical concern: in TRIAGE on the message
\* itself, in IDENTIFY on the clinical intent captured earlier
ClinicalTurn ==
  /\ HandledByCase
  /\ \/ /\ turn.pre.currentState = INBOUND_STATES.TRIAGE
        /\ Memo_classifyIntent[turn.message] = "clinical"
     \/ /\ IdentifiedTurn
        /\ turn.pre.intent = "clinical"

\* the concern handled by the last turn is worded as urgent
UrgentConcern ==
  IF turn.pre.currentState = INBOUND_STATES.TRIAGE
    THEN Memo_isUrgent[turn.message] ELSE Memo_isUrgent["health concern"]

\* the flags the last inbound turn added
AddedFlags ==
  {conversation.flags[i] : i \in (Len(turn.pre.flags) + 1)..Len(conversation.flags)}

\* C30: a clinical concern moves the call to TRANSFER_FLOW with flag
\* clinical_concern_urgent only when the message is urgent and
\* isBusinessHours is true; an urgent concern after hours never enters
\* TRANSFER_FLOW; a non-urgent concern gets flag clinical_concern_logged and
\* moves to MESSAGE_FLOW.
C30_UrgentTransferOnlyInHours ==
  ClinicalTurn
    => /\ (UrgentConcern /\ turn.pre.isBusinessHours)
            => /\ conversation.currentState = INBOUND_STATES.TRANSFER_FLOW
               /\ "clinical_concern_urgent" \in AddedFlags
       /\ (UrgentConcern /\ ~turn.pre.isBusinessHours)
            => conversation.currentState # INBOUND_STATES.TRANSFER_FLOW
       /\ ~UrgentConcern
            => /\ conversation.currentState = INBOUND_STATES.MESSAGE_FLOW
               /\ "clinical_concern_logged" \in AddedFlags

\* the same without the after-hours case
C30_InHoursAndRoutine ==
  (ClinicalTurn /\ (turn.pre.isBusinessHours \/ ~UrgentConcern))
    => /\ UrgentConcern
            => /\ conversation.currentState = INBOUND_STATES.TRANSFER_FLOW
               /\ "clinical_concern_urgent" \in AddedFlags
       /\ ~UrgentConcern
            => /\ conversation.currentState = INBOUND_STATES.MESSAGE_FLOW
               /\ "clinical_concern_logged" \in AddedFlags

LiveTransferPaths ==
  {p \in {"override", "intent", "flow"} :
     /\ InboundReturned
     /\ conversation.finalOutcome = "live_transfer"
     /\ p = IF ~HandledByCase THEN "override"
            ELSE IF turn.pre.currentState = INBOUND_STATES.TRANSFER_FLOW THEN "flow"
            ELSE "intent"}

\* inbound calls in which the caller accepts any doctor
AnyDoctorMessages == {MsgHello, MsgBook, MsgAnyDoctor, MsgDrWong}

AnyDoctorNext ==
  \/ startInboundCall(CallContexts, {GenNone})
  \/ sendMessage(AnyDoctorMessages, {GenAsk}, {IdentityFull}, {IntentOther},
                 MaxBookingTurns)

SpecAnyDoctor == Init /\ [][AnyDoctorNext]_vars

\* the first directory entry that accepts new patients, 0 when there is none
firstEligibleOf(staffDirectory) ==
  LET first(ok) == IF ok = {} THEN 0 ELSE SetMin(ok)
  IN first({k \in 1..Len(staffDirectory) :
              AcceptsTruthy(staffDirectory[k].booking_rules)})

\* a returned APPOINTMENT_FLOW turn in business hours in which the caller
\* names no doctor of the directory and accepts any: the turn resolves the
\* request to a doctor
AnyDoctorTurn ==
  /\ HandledByCase
  /\ turn.pre.currentState = INBOUND_STATES.APPOINTMENT_FLOW
  /\ ~Memo_isDone[turn.message]
  /\ NamedDoctor(turn.message) = 0
  /\ Memo_wantsAnyDoctor[turn.message]
  /\ turn.pre.isBusinessHours

\* C32: an "any doctor" request resolves to the first directory entry that
\* accepts new patients, never to a doctor who would be refused if the caller
\* named them, and to no directory doctor when no entry is eligible
C32_AnyDoctorIsFirstEligible ==
  AnyDoctorTurn =>
    /\ turn.doctor = firstEligibleOf(turn.clinicConfig.staff_directory)
    /\ turn.doctor # 0 =>
         AcceptsTruthy(turn.clinicConfig.staff_directory[turn.doctor].booking_rules)

\* the part of C32 the code satisfies: the doctor chosen is the first entry,
\* in directory order, whose accepts_new_patients is not false
C32_FirstNotRefusing ==
  AnyDoctorTurn =>
    /\ turn.doctor = firstAvailableOf(turn.clinicConfig.staff_directory)
    /\ turn.decision = "offer_slots"

C32_Reached == AnyDoctorTurn /\ turn.doctor # 0

\* the categories the reason classifier is asked to choose from
\* (the prompt of _analyzeNonAdherenceReason)
ReasonTaxonomy ==
  {"forgetting", "side_effects", "ran_out", "cost", "intentional", "other"}

\* a returned outbound turn taken at PROBE_REASON
ProbeReasonTurn ==
  OutboundReturned /\ turn.pre.currentState = OUTBOUND_STATES.PROBE_REASON

\* the flags the outbound turn appended
AddedOutboundFlags ==
  {outboundConversation.flags[i] :
     i \in (Len(turn.pre.flags) + 1)..Len(outboundConversation.flags)}

\* C33: every "reason: X" flag recorded at PROBE_REASON has X in the fixed
\* taxonomy, whatever the classifier returns, and the turn moves to CLOSING
C33_ReasonInTaxonomy ==
  ProbeReasonTurn =>
    /\ \E f \in AddedOutboundFlags : startsWith(f, "reason: ")
    /\ \A f \in AddedOutboundFlags :
         startsWith(f, "reason: ")
           => \E x \in ReasonTaxonomy : f = "reason: " \o x
    /\ outboundConversation.currentState = OUTBOUND_STATES.CLOSING

\* the part of C33 the code satisfies: exactly one reason flag is recorded,
\* "other" for an empty value or a failure, and the turn moves to CLOSING
C33_ReasonRecorded ==
  ProbeReasonTurn =>
    /\ Cardinality({f \in AddedOutboundFlags : startsWith(f, "reason: ")}) = 1
    /\ (~turn.ai.reason.ok \/ turn.ai.reason.reason = "")
         => "reason: other" \in AddedOutboundFlags
    /\ outboundConversation.currentState = OUTBOUND_STATES.CLOSING

\* follow-up calls that are closed with each kind of last word
ClosingMessages == {MsgYes, MsgNothingElse, MsgPharmacy, MsgThatsIt}

ClosingNext ==
  \/ startOutboundCall({GenNone})
  \/ sendOutboundMessage(ClosingMessages, {GenNone}, {IdentityFull},
                         EngineSideEffectReplies, EngineAdherenceReplies,
                         {NoReply}, MaxFollowupTurns)

SpecClosing == Init /\ [][ClosingNext]_vars

\* a returned outbound turn taken at CLOSING
ClosingTurn ==
  OutboundReturned /\ turn.pre.currentState = OUTBOUND_STATES.CLOSING

NoteAdded == ("additional_note: " \o turn.message) \in AddedOutboundFlags

\* C34: at CLOSING the additional_note flag is added exactly when the
\* inbound completion predicate _isDone is false for the message
C34_ClosingUsesIsDone ==
  ClosingTurn => (NoteAdded <=> ~Memo_isDone[turn.message])

\* what CLOSING does: the note is added exactly when the message contains
\* none of "no", "that's all", "nothing", "thank", "bye", "good"
C34_ClosingUsesSubstrings ==
  ClosingTurn => (NoteAdded <=> ~Memo_isDoneClosing[turn.message])

\* both disagreements occur: a message _isDone rejects that CLOSING takes as
\* done, and a message _isDone accepts that CLOSING records as a note
C34_DoneOnlyInClosing == ClosingTurn /\ ~NoteAdded /\ ~Memo_isDone[turn.message]

C34_DoneOnlyInIsDone == ClosingTurn /\ NoteAdded /\ Memo_isDone[turn.message]

\* the states of the safe-start phase
SafeStartStates ==
  {INBOUND_STATES.GREETING, INBOUND_STATES.IDENTIFY, INBOUND_STATES.TRIAGE}

\* the patient messages a transcript records as taken in the safe-start phase
SafeStartMessages(transcript) ==
  Cardinality({i \in 1..Len(transcript) :
                 /\ transcript[i].role = "user"
                 /\ transcript[i].state \in SafeStartStates})

\* C35: at most 5 patient messages are processed while currentState is
\* GREETING, IDENTIFY or TRIAGE, whatever the messages and the collaborator
\* results: every message processed in these states is one of at most 5 the
\* conversation records there, so the phase cannot go on forever
C35_SafeStartBounded ==
  /\ [](conversation # NoConversation
          => SafeStartMessages(conversation.transcript) <= 5)
  /\ [][(/\ turn'.engine = "inbound"
         /\ turn'.pre.currentState \in SafeStartStates)
          => SafeStartMessages(conversation'.transcript)
               = SafeStartMessages(turn'.pre.transcript) + 1]_vars

\* the part of C35 the code satisfies: the turns that return in the
\* safe-start phase are at most 5 (the GREETING turn, one IDENTIFY turn that
\* captures an intent or extracts the identity, and three counted turns)
C35_ReturnedTurnsBounded ==
  conversation # NoConversation
    => SafeStartMessages(conversation.transcript) <= 5

\* the bound is reached
C35_FiveReached ==
  /\ conversation # NoConversation
  /\ SafeStartMessages(conversation.transcript) = 5

\* the outbound states from CHECK_SIDE_EFFECTS onward
AfterVerification ==
  {OUTBOUND_STATES.CHECK_SIDE_EFFECTS, OUTBOUND_STATES.CHECK_ADHERENCE,
   OUTBOUND_STATES.PROBE_REASON, OUTBOUND_STATES.ESCALATED,
   OUTBOUND_STATES.CLOSING, OUTBOUND_STATES.COMPLETE}

\* C36: the follow-up call goes on to the side-effect and adherence questions
\* only with a verified identity: every state from CHECK_SIDE_EFFECTS onward
\* has patientIdentified = true, and a VERIFY_IDENTITY turn that extracts no
\* name does not move to CHECK_SIDE_EFFECTS
C36_QuestionsOnlyWhenIdentified ==
  /\ (/\ outboundConversation # NoConversation
      /\ outboundConversation.currentState \in AfterVerification)
       => outboundConversation.patientIdentified
  /\ (/\ OutboundReturned
      /\ turn.pre.currentState = OUTBOUND_STATES.VERIFY_IDENTITY
      /\ ~(turn.ai.identity.ok /\ Truthy(turn.ai.identity.name)))
       => outboundConversation.currentState # OUTBOUND_STATES.CHECK_SIDE_EFFECTS

\* what VERIFY_IDENTITY does: it always moves to CHECK_SIDE_EFFECTS, and
\* patientIdentified records whether a name was extracted
C36_VerifyAlwaysProceeds ==
  (OutboundReturned /\ turn.pre.currentState = OUTBOUND_STATES.VERIFY_IDENTITY)
    => /\ outboundConversation.currentState = OUTBOUND_STATES.CHECK_SIDE_EFFECTS
       /\ outboundConversation.patientIdentified
            <=> (turn.ai.identity.ok /\ Truthy(turn.ai.identity.name))

\* a follow-up call is completed without a verified identity
C36_CompletedUnverified ==
  /\ outboundConversation # NoConversation
  /\ outboundConversation.isComplete
  /\ ~outboundConversation.patientIdentified

\* the patient messages of the follow-up call whose turns returned
OutboundUserMessages ==
  Cardinality({i \in 1..Len(outboundConversation.transcript) :
                 outboundConversation.transcript[i].role = "user"})

OutboundCompleted ==
  /\ outboundConversation.currentState = OUTBOUND_STATES.COMPLETE
  /\ outboundConversation.isComplete

\* C37: a follow-up call is COMPLETE with isComplete = true once 6 patient
\* messages were answered, whatever the messages and the classifications, and
\* every message answered in CLOSING, done or not, completes the call
C37_OutboundCompletesWithinSix ==
  /\ (outboundConversation # NoConversation /\ OutboundUserMessages >= 6)
       => OutboundCompleted
  /\ ClosingTurn => OutboundCompleted

\* the longest call: all six states are visited, the last message is not a
\* closing word
C37_Witness ==
  /\ ClosingTurn
  /\ OutboundUserMessages = 6
  /\ NoteAdded
  /\ OutboundCompleted

\* the terminal exit states of the inbound call
ExitStates ==
  {INBOUND_STATES.EMERGENCY_EXIT, INBOUND_STATES.SUCCESS_EXIT,
   INBOUND_STATES.CONFUSION_EXIT}

\* C38: an inbound state returned with isComplete = true is in one of the exit
\* states EMERGENCY_EXIT, SUCCESS_EXIT, CONFUSION_EXIT, never in a flow state
C38_CompleteOnlyInExitStates ==
  (InboundReturned /\ conversation.isComplete)
    => conversation.currentState \in ExitStates

\* where the code completes a call: the exit states and TRANSFER_FLOW
C38_CompleteInExitOrTransfer ==
  (InboundReturned /\ conversation.isComplete)
    => conversation.currentState \in ExitStates \cup {INBOUND_STATES.TRANSFER_FLOW}

\* a call completed in TRANSFER_FLOW by the transfer override
C38_CompletedInTransferFlow ==
  /\ InboundReturned
  /\ conversation.isComplete
  /\ conversation.currentState = INBOUND_STATES.TRANSFER_FLOW
  /\ SafeStart(turn.message, turn.clinicConfig) = "transfer"

\* inbound calls in which the caller gives a full identity, a name only, or
\* none, refuses, and books
VerifiedMessages == {MsgBook, MsgDrPatel, MsgSlot, MsgRatherNot, MsgNoThanks}

VerifiedIdentities == {IdentityFull, IdentityNameOnly, NoReply}

VerifiedIntents == {IntentConfirming, IntentOther}

VerifiedNext ==
  \/ startInboundCall(CallContexts, {GenNone})
  \/ sendMessage(VerifiedMessages, {GenPatelSlots}, VerifiedIdentities,
                 VerifiedIntents, MaxBookingTurns)

SpecVerified == Init /\ [][VerifiedNext]_vars

AppointmentRecorded ==
  \/ Contains(conversation.flags, "appointment_booked")
  \/ Contains(conversation.flags, "appointment_noted")

\* C39: appointment_booked and appointment_noted occur only with
\* patientIdentified true; APPOINTMENT_FLOW and TRIAGE are entered only with
\* both name and date of birth extracted; a caller who refused identification
\* is in neither and has no appointment recorded
C39_AppointmentsOnlyWhenIdentified ==
  conversation # NoConversation =>
    /\ AppointmentRecorded => conversation.patientIdentified
    /\ conversation.currentState
         \in {INBOUND_STATES.APPOINTMENT_FLOW, INBOUND_STATES.TRIAGE}
         => /\ conversation.patientIdentified
            /\ Truthy(conversation.patientName)
            /\ Truthy(conversation.patientDob)
    /\ Contains(conversation.flags, "identity_not_verified")
         => /\ ~AppointmentRecorded
            /\ conversation.currentState
                 \notin {INBOUND_STATES.APPOINTMENT_FLOW, INBOUND_STATES.TRIAGE}

\* an appointment is booked for an identified caller
C39_Witness ==
  /\ conversation # NoConversation
  /\ Contains(conversation.flags, "appointment_booked")
  /\ conversation.patientIdentified

\* the other cases occur: an appointment is noted, a name without a date of
\* birth is offered in IDENTIFY, and a caller refuses identification
C39_NotedReached ==
  conversation # NoConversation /\ Contains(conversation.flags, "appointment_noted")

C39_NameOnlyOffered ==
  /\ InboundReturned
  /\ turn.pre.currentState = INBOUND_STATES.IDENTIFY
  /\ turn.ai.identity = IdentityNameOnly

C39_RefusalReached ==
  /\ conversation # NoConversation
  /\ Contains(conversation.flags, "identity_not_verified")

\* the finalOutcome the return derives for a completed follow-up call
ExpectedOutcome(cs) ==
  IF cs.escalatedToDoctor THEN "escalated_to_clinician"
  ELSE IF Len(cs.flags) > 0 THEN "completed_with_flags"
  ELSE "completed_successfully"

\* C40: in every outbound state escalatedToDoctor is true exactly when flags
\* contain "URGENT: severe_side_effects"; once true it stays true; and a
\* completed call has finalOutcome escalated_to_clinician exactly when
\* escalatedToDoctor, otherwise completed_with_flags with flags and
\* completed_successfully without
C40_EscalationMatchesFlagAndOutcome ==
  /\ [](outboundConversation # NoConversation
          => /\ outboundConversation.escalatedToDoctor
                  <=> Contains(outboundConversation.flags, "URGENT: severe_side_effects")
             /\ outboundConversation.isComplete
                  => /\ outboundConversation.finalOutcome
                          = ExpectedOutcome(outboundConversation)
                     /\ outboundConversation.finalOutcome = "escalated_to_clinician"
                          <=> outboundConversation.escalatedToDoctor)
  /\ [][(outboundConversation # NoConversation
           /\ outboundConversation.escalatedToDoctor)
          => outboundConversation'.escalatedToDoctor]_vars

\* an escalated call is completed, and a message is posted to it afterwards
C40_Witness ==
  /\ OutboundReturned
  /\ turn.pre.currentState = OUTBOUND_STATES.COMPLETE
  /\ turn.pre.escalatedToDoctor
  /\ outboundConversation.isComplete
  /\ outboundConversation.finalOutcome = "escalated_to_clinician"

\* the other two outcomes occur
C40_WithFlagsReached ==
  /\ outboundConversation # NoConversation
  /\ outboundConversation.finalOutcome = "completed_with_flags"

C40_SuccessfullyReached ==
  /\ outboundConversation # NoConversation
  /\ outboundConversation.finalOutcome = "completed_successfully"

====
